---- MODULE Spec2Model ----
(***************************************************************************)
(* Model of the AI correction pipeline of AITextCorrector                  *)
(* (backend/ai/ai_manager.py and its collaborators).                       *)
(*                                                                         *)
(* Texts are sequences of one-character strings.  Characters outside ASCII *)
(* are written by name: "EMDASH" for U+2014, "LDQ"/"RDQ" for the curly     *)
(* double quotes U+201C/U+201D, "LSQ"/"RSQ" for the curly single quotes    *)
(* U+2018/U+2019, "ACUTE" for U+00B4 and "ELLIPSIS" for U+2026.            *)
(***************************************************************************)
EXTENDS Integers, Sequences, FiniteSets, TLC

(***************************************************************************)
(* Python str primitives                                                   *)
(***************************************************************************)

\* None, as a value no text equals ("None" is not a character of any text)
None == <<"None">>

\* What a function that may raise yields: its return value, or the exception
Return(v) == [raised |-> FALSE, value |-> v]

Raise == [raised |-> TRUE, value |-> <<>>]

WhitespaceChars == {" ", "\n"}

Min(a, b) == IF a < b THEN a ELSE b

\* Python evaluates an expression once when it is assigned to a name:
\* body applied to the value of the expression
Assigned(value, body(_)) == CHOOSE result \in {body(v) : v \in {value}} : TRUE

\* s[i:] (0-based i)
DropFirst(s, n) == IF n >= Len(s) THEN <<>> ELSE SubSeq(s, n + 1, Len(s))

\* s[:n]
TakeFirst(s, n) == IF n >= Len(s) THEN s ELSE SubSeq(s, 1, n)

\* str.startswith
StartsWith(s, p) == Len(p) <= Len(s) /\ SubSeq(s, 1, Len(p)) = p

\* str.endswith
EndsWith(s, p) == Len(p) <= Len(s) /\ SubSeq(s, Len(s) - Len(p) + 1, Len(s)) = p

\* "p in s"
Contains(s, p) == \E i \in 1..(Len(s) - Len(p) + 1) : SubSeq(s, i, i + Len(p) - 1) = p

\* str.find: 1-based position of the first occurrence of p in s, 0 when absent
Find(s, p) ==
    IF Contains(s, p)
    THEN CHOOSE i \in 1..(Len(s) - Len(p) + 1) :
            /\ SubSeq(s, i, i + Len(p) - 1) = p
            /\ \A j \in 1..(i - 1) : SubSeq(s, j, j + Len(p) - 1) # p
    ELSE 0

RECURSIVE LStrip(_)
LStrip(s) == IF s # <<>> /\ Head(s) \in WhitespaceChars THEN LStrip(Tail(s)) ELSE s

RECURSIVE RStrip(_)
RStrip(s) ==
    IF s # <<>> /\ s[Len(s)] \in WhitespaceChars THEN RStrip(SubSeq(s, 1, Len(s) - 1)) ELSE s

\* str.strip()
Strip(s) == RStrip(LStrip(s))

\* str.split(sep): left to right, non-overlapping, empty parts kept
RECURSIVE Split(_, _)
Split(s, sep) ==
    LET i == Find(s, sep)
    IN  IF i = 0 THEN <<s>>
        ELSE <<SubSeq(s, 1, i - 1)>> \o Split(DropFirst(s, i - 1 + Len(sep)), sep)

\* str.replace(old, new): left to right, non-overlapping
RECURSIVE Replace(_, _, _)
Replace(s, old, new) ==
    LET i == Find(s, old)
    IN  IF i = 0 THEN s
        ELSE SubSeq(s, 1, i - 1) \o new \o Replace(DropFirst(s, i - 1 + Len(old)), old, new)

\* sep.join(parts)
RECURSIVE Join(_, _)
Join(parts, sep) ==
    IF parts = <<>> THEN <<>>
    ELSE IF Len(parts) = 1 THEN parts[1]
    ELSE parts[1] \o sep \o Join(Tail(parts), sep)

UpperChars == {"H", "A"}

LowerChar(c) == IF c = "H" THEN "h" ELSE IF c = "A" THEN "a" ELSE c

\* str.lower()
Lower(s) == [i \in 1..Len(s) |-> LowerChar(s[i])]

\* [f(x) for x in seq]
RECURSIVE FlattenSeq(_)
FlattenSeq(ss) == IF ss = <<>> THEN <<>> ELSE Head(ss) \o FlattenSeq(Tail(ss))

\* [x for x in seq if len(x) > 0]
RECURSIVE NonBlank(_)
NonBlank(parts) ==
    IF parts = <<>> THEN <<>>
    ELSE IF Len(Head(parts)) > 0 THEN <<Head(parts)>> \o NonBlank(Tail(parts))
    ELSE NonBlank(Tail(parts))

StripAll(parts) == [i \in 1..Len(parts) |-> Strip(parts[i])]

\* list(dict.fromkeys(parts)): duplicates dropped, first occurrences kept in order
RECURSIVE Dedupe(_)
Dedupe(parts) ==
    IF parts = <<>> THEN <<>>
    ELSE LET init == Dedupe(SubSeq(parts, 1, Len(parts) - 1))
             last == parts[Len(parts)]
         IN  IF \E i \in 1..Len(init) : init[i] = last THEN init ELSE Append(init, last)


(***************************************************************************)
(* Phrase detection (ai_manager.py, is_ai_preamble and friends)            *)
(***************************************************************************)

\* "here are the corrected text"
PreamblePhrase1 ==
    <<"h", "e", "r", "e", " ", "a", "r", "e", " ", "t", "h", "e", " ", "c", "o", "r", "r", "e", "c", "t", "e", "d", " ", "t", "e", "x", "t">>

\* "here are the corrected paragraphs"
PreamblePhrase2 ==
    <<"h", "e", "r", "e", " ", "a", "r", "e", " ", "t", "h", "e", " ", "c", "o", "r", "r", "e", "c", "t", "e", "d", " ", "p", "a", "r", "a", "g", "r", "a", "p", "h", "s">>

\* "here are the corrected chapters"
PreamblePhrase3 ==
    <<"h", "e", "r", "e", " ", "a", "r", "e", " ", "t", "h", "e", " ", "c", "o", "r", "r", "e", "c", "t", "e", "d", " ", "c", "h", "a", "p", "t", "e", "r", "s">>

\* "here are the corrections"
PreamblePhrase4 ==
    <<"h", "e", "r", "e", " ", "a", "r", "e", " ", "t", "h", "e", " ", "c", "o", "r", "r", "e", "c", "t", "i", "o", "n", "s">>

\* "here are your corrections"
PreamblePhrase5 ==
    <<"h", "e", "r", "e", " ", "a", "r", "e", " ", "y", "o", "u", "r", " ", "c", "o", "r", "r", "e", "c", "t", "i", "o", "n", "s">>

\* "here are the text paragraphs"
PreamblePhrase6 ==
    <<"h", "e", "r", "e", " ", "a", "r", "e", " ", "t", "h", "e", " ", "t", "e", "x", "t", " ", "p", "a", "r", "a", "g", "r", "a", "p", "h", "s">>

\* "here is the corrected"
PreamblePhrase7 ==
    <<"h", "e", "r", "e", " ", "i", "s", " ", "t", "h", "e", " ", "c", "o", "r", "r", "e", "c", "t", "e", "d">>

\* "here's the corrected"
PreamblePhrase8 ==
    <<"h", "e", "r", "e", "'", "s", " ", "t", "h", "e", " ", "c", "o", "r", "r", "e", "c", "t", "e", "d">>

\* "no corrections needed"
NoCorrectionsNeededPhrase ==
    <<"n", "o", " ", "c", "o", "r", "r", "e", "c", "t", "i", "o", "n", "s", " ", "n", "e", "e", "d", "e", "d">>

\* "text is already correct"
AlreadyCorrectPhrase ==
    <<"t", "e", "x", "t", " ", "i", "s", " ", "a", "l", "r", "e", "a", "d", "y", " ", "c", "o", "r", "r", "e", "c", "t">>

\* "issues"
WordIssues == <<"i", "s", "s", "u", "e", "s">>

\* "provided"
WordProvided == <<"p", "r", "o", "v", "i", "d", "e", "d">>

\* "corrections"
WordCorrections == <<"c", "o", "r", "r", "e", "c", "t", "i", "o", "n", "s">>

is_ai_preamble(text) ==
    \E as_lower \in {Lower(text)} :
        \/ StartsWith(as_lower, PreamblePhrase1)
        \/ StartsWith(as_lower, PreamblePhrase2)
        \/ StartsWith(as_lower, PreamblePhrase3)
        \/ StartsWith(as_lower, PreamblePhrase4)
        \/ StartsWith(as_lower, PreamblePhrase5)
        \/ StartsWith(as_lower, PreamblePhrase6)
        \/ StartsWith(as_lower, PreamblePhrase7)
        \/ StartsWith(as_lower, PreamblePhrase8)

is_ai_no_corrections_needed_text(text) ==
    \E as_lower \in {Lower(text)} :
        StartsWith(as_lower, NoCorrectionsNeededPhrase) \/ Contains(as_lower, AlreadyCorrectPhrase)

is_ai_corrections_summary(parts) ==
    IF Len(parts) < 2 THEN FALSE
    ELSE \E first_lower \in {Lower(parts[1])} :
             \/ /\ Contains(first_lower, WordIssues)
                /\ Contains(first_lower, WordProvided)
                /\ Contains(first_lower, WordCorrections)
             \/ Contains(first_lower, PreamblePhrase7)

(***************************************************************************)
(* Response Segmenter (ai_manager.py, extract_corrections)                 *)
(***************************************************************************)

Separator == <<"-", "-", "-">>

EmDash == <<"EMDASH">>

BlankLine == <<"\n", "\n">>

NewLine == <<"\n">>

\* [section.strip() for part in parts for section in part.split(sep)]
SplitEach(parts, sep) == StripAll(FlattenSeq([i \in 1..Len(parts) |-> Split(parts[i], sep)]))

\* The last resort of extract_corrections: the em-dash as the separator
extract_with_em_dash(expected, response) ==
    Assigned(NonBlank(StripAll(Split(response, EmDash))), LAMBDA parts0 :
    Assigned(IF Len(parts0) > 1 /\ is_ai_preamble(parts0[1])
             THEN Assigned(Split(parts0[1], BlankLine), LAMBDA by_blank_line :
                  Assigned(IF Len(by_blank_line) < 2 THEN Split(parts0[1], NewLine)
                           ELSE by_blank_line, LAMBDA split_first :
                  IF Len(split_first) > 1 THEN Tail(split_first) \o Tail(parts0)
                  ELSE Tail(parts0)))
             ELSE parts0, LAMBDA parts :
    IF Len(parts) = expected THEN Return(parts) ELSE Raise))

\* The blank-line and single-newline fallbacks of extract_corrections
extract_by_lines(expected, parts, response) ==
    Assigned(SplitEach(parts, BlankLine), LAMBDA line_parts0 :
    Assigned(IF Len(line_parts0) > 1 /\ is_ai_preamble(line_parts0[1])
             THEN Tail(line_parts0) ELSE line_parts0, LAMBDA line_parts1 :
    IF Len(line_parts1) = expected THEN Return(line_parts1)
    ELSE Assigned(SplitEach(line_parts1, NewLine), LAMBDA line_parts2 :
         IF Len(line_parts2) = expected /\ ~is_ai_corrections_summary(line_parts2)
         THEN Return(line_parts2)
         ELSE extract_with_em_dash(expected, response))))

\* Variant of extract_corrections: blank parts are kept among the separator's parts
extract_corrections_keeping_blank_parts(paragraph_bundle, response) ==
    Assigned(Len(paragraph_bundle), LAMBDA expected :
    Assigned(StripAll(Split(response, Separator)), LAMBDA parts0 :
    IF Len(parts0) = expected THEN Return(parts0)
    ELSE IF Len(parts0) - 1 = expected /\ is_ai_preamble(parts0[1]) THEN Return(Tail(parts0))
    ELSE Assigned(Dedupe(IF Len(parts0) > 1 /\ is_ai_preamble(parts0[1])
                         THEN Tail(parts0) ELSE parts0), LAMBDA parts2 :
         IF Len(parts2) = expected THEN Return(parts2)
         ELSE extract_by_lines(expected, parts2, response))))

\* Variant of extract_corrections: exact duplicates are deleted before the parts
\* are counted for the first time
extract_corrections_deduplicating_first(paragraph_bundle, response) ==
    Assigned(Len(paragraph_bundle), LAMBDA expected :
    Assigned(Dedupe(NonBlank(StripAll(Split(response, Separator)))), LAMBDA parts0 :
    IF Len(parts0) = expected THEN Return(parts0)
    ELSE IF Len(parts0) - 1 = expected /\ is_ai_preamble(parts0[1]) THEN Return(Tail(parts0))
    ELSE extract_by_lines(expected,
                          IF Len(parts0) > 1 /\ is_ai_preamble(parts0[1])
                          THEN Tail(parts0) ELSE parts0,
                          response)))

\* extract_corrections(paragraph_bundle, response): the list of parts, or the exception
extract_corrections(paragraph_bundle, response) ==
    Assigned(Len(paragraph_bundle), LAMBDA expected :
    Assigned(NonBlank(StripAll(Split(response, Separator))), LAMBDA parts0 :
    IF Len(parts0) = expected THEN Return(parts0)
    ELSE IF Len(parts0) - 1 = expected /\ is_ai_preamble(parts0[1]) THEN Return(Tail(parts0))
    ELSE Assigned(Dedupe(IF Len(parts0) > 1 /\ is_ai_preamble(parts0[1])
                         THEN Tail(parts0) ELSE parts0), LAMBDA parts2 :
         IF Len(parts2) = expected THEN Return(parts2)
         ELSE extract_by_lines(expected, parts2, response))))


(***************************************************************************)
(* Text Normalizer (ai_manager.py, post_process_correction)                *)
(***************************************************************************)

convert_to_smart_quotes(text) ==
    LET \* opened before position i: an odd number of plain quotes precede it
        opened(i) == Cardinality({j \in 1..(i - 1) : text[j] = "\""}) % 2 = 1
    IN  [i \in 1..Len(text) |->
            IF text[i] = "\"" THEN (IF opened(i) THEN "RDQ" ELSE "LDQ") ELSE text[i]]

\* Variant of unify_punctuation_marks: plain double quotes are always made smart
unify_punctuation_marks_always_smart(original, updated) ==
    IF Contains(updated, <<"\"">>) THEN convert_to_smart_quotes(updated) ELSE updated

unify_punctuation_marks(original, updated) ==
    Assigned(IF Contains(original, <<"RSQ">>) /\ Contains(updated, <<"'">>)
              THEN Replace(updated, <<"'">>, <<"RSQ">>)
              ELSE IF /\ Contains(original, <<"LSQ">>)
                      /\ ~Contains(original, <<"RSQ">>)
                      /\ Contains(updated, <<"'">>)
                      /\ ~Contains(updated, <<"RSQ">>)
              THEN Replace(updated, <<"'">>, <<"LSQ">>)
              ELSE IF ~Contains(original, <<"RSQ">>) /\ Contains(updated, <<"RSQ">>)
              THEN Replace(updated, <<"RSQ">>, <<"'">>)
              ELSE updated, LAMBDA u1 :
    Assigned(IF Contains(original, <<"LDQ">>) /\ Contains(u1, <<"\"">>)
             THEN convert_to_smart_quotes(u1) ELSE u1, LAMBDA u2 :
    Assigned(Replace(u2, <<"LDQ", " ">>, <<"LDQ">>), LAMBDA u3 :
    Assigned(Replace(u3, <<" ", "RDQ">>, <<"RDQ">>), LAMBDA u4 :
    Assigned(Replace(u4, <<"LDQ", "LDQ">>, <<"LDQ">>), LAMBDA u5 :
    Assigned(Replace(u5, <<"RDQ", "RDQ">>, <<"RDQ">>), LAMBDA u6 :
    Replace(u6, <<"LDQ", "RDQ">>, <<"LDQ">>)))))))

\* The scan of fix_invalid_quote_punctuation, from 0-based position i
RECURSIVE fix_quote_scan(_, _)
fix_quote_scan(text, i) ==
    IF i >= Len(text) THEN <<>>
    ELSE IF /\ i + 2 < Len(text)
            /\ SubSeq(text, i + 1, i + 3) \in {<<".", "RDQ", ",">>, <<",", "RDQ", ".">>}
    THEN LET \* 0-based positions from i + 3 on that hold no whitespace
             rest == {k \in (i + 3)..(Len(text) - 1) : text[k + 1] \notin WhitespaceChars}
             next_char_pos == IF rest = {} THEN Len(text)
                              ELSE CHOOSE k \in rest : \A m \in rest : k <= m
         IN  (IF next_char_pos < Len(text) /\ text[next_char_pos + 1] \in UpperChars
              THEN <<".", "RDQ">> ELSE <<",", "RDQ">>) \o fix_quote_scan(text, i + 3)
    ELSE <<text[i + 1]>> \o fix_quote_scan(text, i + 1)

fix_invalid_quote_punctuation(text) ==
    Assigned(Replace(text, <<"?", "RDQ", ".">>, <<"?", "RDQ">>), LAMBDA t1 :
    Assigned(Replace(t1, <<"?", "RDQ", ",">>, <<"?", "RDQ">>), LAMBDA t2 :
    Assigned(Replace(t2, <<"ELLIPSIS", "RDQ", ",">>, <<"ELLIPSIS", "RDQ">>), LAMBDA t3 :
    Assigned(Replace(t3, <<"!", "RDQ", ",">>, <<"!", "RDQ">>), LAMBDA t4 :
    IF ~Contains(t4, <<".", "RDQ", ",">>) /\ ~Contains(t4, <<",", "RDQ", ".">>)
    THEN t4
    ELSE fix_quote_scan(t4, 0)))))

\* The "---" block of post_process_correction (the model duplicating its answer)
collapse_duplicated_answer(updated) ==
    Assigned(Split(updated, Separator), LAMBDA parts :
    Assigned(IF Len(parts) = 2 /\ Strip(parts[1]) = Strip(parts[2])
             THEN Strip(parts[1]) ELSE updated, LAMBDA d1 :
    Assigned(IF StartsWith(d1, Separator) THEN Strip(DropFirst(d1, 3)) ELSE d1, LAMBDA d2 :
    Assigned(IF EndsWith(d2, Separator) THEN Strip(TakeFirst(d2, Len(d2) - 3)) ELSE d2,
             LAMBDA d3 :
    IF Contains(d3, Separator) THEN Strip(Split(d3, Separator)[1]) ELSE d3))))

\* post_process_correction(original, updated): the cleaned text, or the ValueError
post_process_correction(original, updated) ==
    Assigned(IF is_ai_no_corrections_needed_text(updated) THEN original ELSE updated,
             LAMBDA p1 :
    Assigned(IF StartsWith(p1, <<"-", "\n">>) \/ StartsWith(p1, EmDash)
             THEN Strip(DropFirst(p1, 1)) ELSE p1, LAMBDA p2 :
    Assigned(IF Contains(p2, Separator) THEN collapse_duplicated_answer(p2) ELSE p2,
             LAMBDA p3 :
    Assigned(unify_punctuation_marks(original, p3), LAMBDA p4 :
    Assigned(IF /\ ~Contains(original, <<"*">>)
                /\ Contains(p4, <<"LDQ", "*">>)
                /\ Contains(p4, <<"*", "RDQ">>)
             THEN Replace(Replace(p4, <<"LDQ", "*">>, <<"*", "RDQ">>),
                          <<"*", "RDQ">>, <<"*", "RDQ">>)
             ELSE p4, LAMBDA p5 :
    Assigned(IF ~Contains(original, <<"LDQ", "LSQ">>) /\ Contains(p5, <<"LDQ", "LSQ">>)
             THEN Replace(Replace(Replace(p5, <<"LDQ", "LSQ">>, <<"LDQ">>),
                                  <<"'", "RDQ">>, <<"RDQ">>),
                          <<"ACUTE", "RDQ">>, <<"RDQ">>)
             ELSE p5, LAMBDA p6 :
    IF is_ai_preamble(p6) THEN Raise ELSE Return(fix_invalid_quote_punctuation(p6))))))))

(***************************************************************************)
(* Similarity Validator (utils/correction_validation.py)                   *)
(***************************************************************************)

\* DEFAULT_THRESHOLD = 0.5, as the fraction ThresholdNum / ThresholdDen
ThresholdNum == 1

ThresholdDen == 2

Min3(a, b, c) == Min(a, Min(b, c))

\* Levenshtein.distance
RECURSIVE levenshtein_distance(_, _)
levenshtein_distance(a, b) ==
    IF a = <<>> THEN Len(b)
    ELSE IF b = <<>> THEN Len(a)
    ELSE IF Head(a) = Head(b) THEN levenshtein_distance(Tail(a), Tail(b))
    ELSE 1 + Min3(levenshtein_distance(Tail(a), b),
                  levenshtein_distance(a, Tail(b)),
                  levenshtein_distance(Tail(a), Tail(b)))

RECURSIVE ProductOfLengths(_, _)
ProductOfLengths(texts, except) ==
    IF texts = <<>> THEN 1
    ELSE (IF Len(texts) = except THEN 1 ELSE Len(texts[Len(texts)]))
         * ProductOfLengths(SubSeq(texts, 1, Len(texts) - 1), except)

\* sum(dist_i / len_i), times the product of all the lengths
RECURSIVE ScaledDistanceSum(_, _, _)
ScaledDistanceSum(original, corrections, i) ==
    IF i = 0 THEN 0
    ELSE levenshtein_distance(original[i], corrections[i]) * ProductOfLengths(original, i)
         + ScaledDistanceSum(original, corrections, i - 1)

\* validate_corrections(original, corrections, threshold, all_must_pass): TRUE or
\* FALSE, or the ValueError for lists of different lengths
validate_corrections(original, corrections, all_must_pass) ==
    IF Len(original) # Len(corrections) THEN Raise
    ELSE IF Len(original) = 0 THEN Return(TRUE)
    ELSE IF \E i \in 1..Len(original) : Len(original[i]) = 0 THEN Return(FALSE)
    ELSE IF /\ all_must_pass
            /\ \E i \in 1..Len(original) :
                  levenshtein_distance(original[i], corrections[i]) * ThresholdDen
                      > ThresholdNum * Len(original[i])
    THEN Return(FALSE)
    ELSE \* average > threshold, with sum and quotient over the common denominator
         Return(~(ScaledDistanceSum(original, corrections, Len(original)) * ThresholdDen
                    > ThresholdNum * Len(original) * ProductOfLengths(original, 0)))


(***************************************************************************)
(* Paragraphs, batching, history reconciliation (ai_manager.py)            *)
(***************************************************************************)

\* db/project.py CorrectionStatus
CorrectionStatus ==
    {"notGenerated", "generated", "reviewed", "accepted", "rejected", "notRequired"}

\* db/project.py Paragraph (the fields the correction pipeline reads or writes)
Paragraph(index, originalText, correctedText, manuallyCorrectedText, correctionStatus) ==
    [index |-> index, originalText |-> originalText, correctedText |-> correctedText,
     manuallyCorrectedText |-> manuallyCorrectedText, correctionStatus |-> correctionStatus]

\* Python truthiness of an Optional[str]
Truthy(text) == text # None /\ text # <<>>

OriginalTexts(paragraph_bundle) ==
    [i \in 1..Len(paragraph_bundle) |-> paragraph_bundle[i].originalText]

\* Variant of apply_correction: a correction equal to the original is stored like
\* any other
apply_correction_storing_equal_text(paragraph, correction) ==
    [paragraph EXCEPT
        !.correctedText = correction,
        !.correctionStatus = IF @ \in {"notGenerated", "rejected", "notRequired"}
                             THEN "generated" ELSE @]

\* Variant of apply_correction: the status is left as it was
apply_correction_keeping_status(paragraph, correction) ==
    [paragraph EXCEPT
        !.correctedText = IF correction = paragraph.originalText THEN None ELSE correction]

\* Variant of apply_correction: a text equal to the original always gives notRequired
apply_correction_overriding_review(paragraph, correction) ==
    IF correction = paragraph.originalText
    THEN [paragraph EXCEPT !.correctedText = None, !.correctionStatus = "notRequired"]
    ELSE [paragraph EXCEPT
            !.correctedText = correction,
            !.correctionStatus = IF @ \in {"notGenerated", "rejected", "notRequired"}
                                 THEN "generated" ELSE @]

\* Variant of apply_correction: a text equal to the original leaves the stored
\* suggestion as it was
apply_correction_keeping_old_text(paragraph, correction) ==
    IF correction = paragraph.originalText
    THEN [paragraph EXCEPT
            !.correctionStatus = IF @ \in {"accepted", "reviewed"} THEN @ ELSE "notRequired"]
    ELSE [paragraph EXCEPT
            !.correctedText = correction,
            !.correctionStatus = IF @ \in {"notGenerated", "rejected", "notRequired"}
                                 THEN "generated" ELSE @]

\* Variant of apply_correction: a rejected paragraph stays rejected when a new
\* text arrives for it
apply_correction_keeping_rejection(paragraph, correction) ==
    LET s2 == IF paragraph.correctionStatus = "notGenerated" THEN "generated"
              ELSE paragraph.correctionStatus
        manual == IF s2 # "accepted" /\ Truthy(paragraph.manuallyCorrectedText) THEN None
                  ELSE paragraph.manuallyCorrectedText
    IN  IF correction = paragraph.originalText
        THEN [paragraph EXCEPT !.correctedText = None, !.manuallyCorrectedText = manual,
                !.correctionStatus = IF s2 # "accepted" /\ s2 # "reviewed" THEN "notRequired"
                                     ELSE s2]
        ELSE [paragraph EXCEPT !.correctedText = correction, !.manuallyCorrectedText = manual,
                !.correctionStatus = IF s2 = "notRequired" THEN "generated" ELSE s2]

\* One pass of the loop of apply_corrections
apply_correction(paragraph, correction) ==
    LET s1 == IF paragraph.correctionStatus = "notGenerated"
              THEN "generated" ELSE paragraph.correctionStatus
        s2 == IF s1 = "rejected" /\ paragraph.correctedText # correction
              THEN "generated" ELSE s1
        manual == IF s2 # "accepted" /\ Truthy(paragraph.manuallyCorrectedText)
                  THEN None ELSE paragraph.manuallyCorrectedText
    IN  IF correction = paragraph.originalText
        THEN [paragraph EXCEPT
                !.correctedText = None,
                !.manuallyCorrectedText = manual,
                !.correctionStatus = IF s2 # "accepted" /\ s2 # "reviewed"
                                     THEN "notRequired" ELSE s2]
        ELSE [paragraph EXCEPT
                !.correctedText = correction,
                !.manuallyCorrectedText = manual,
                !.correctionStatus = IF s2 = "notRequired" THEN "generated" ELSE s2]

apply_corrections(paragraph_bundle, corrections) ==
    [i \in 1..Len(paragraph_bundle) |-> apply_correction(paragraph_bundle[i], corrections[i])]

\* Variant of the loop of chunked_paragraphs: a gap in the indices does not close
\* the current chunk
RECURSIVE chunk_loop_ignoring_gaps(_, _, _, _, _, _)
chunk_loop_ignoring_gaps(paragraphs, chunk_size, i, chunks, current_chunk, current_size) ==
    IF i > Len(paragraphs)
    THEN IF current_chunk # <<>> THEN Append(chunks, current_chunk) ELSE chunks
    ELSE IF current_size + Len(paragraphs[i].originalText) > chunk_size /\ Len(current_chunk) > 0
    THEN chunk_loop_ignoring_gaps(paragraphs, chunk_size, i + 1, Append(chunks, current_chunk),
                                  <<paragraphs[i]>>, Len(paragraphs[i].originalText))
    ELSE chunk_loop_ignoring_gaps(paragraphs, chunk_size, i + 1, chunks,
                                  Append(current_chunk, paragraphs[i]),
                                  current_size + Len(paragraphs[i].originalText))

\* Variant of the loop of chunked_paragraphs: the current chunk is closed once it
\* is over the size, not before the paragraph that would take it over
RECURSIVE chunk_loop_closing_late(_, _, _, _, _, _)
chunk_loop_closing_late(paragraphs, chunk_size, i, chunks, current_chunk, current_size) ==
    IF i > Len(paragraphs)
    THEN IF current_chunk # <<>> THEN Append(chunks, current_chunk) ELSE chunks
    ELSE IF \/ (current_size > chunk_size /\ Len(current_chunk) > 0)
            \/ /\ Len(current_chunk) > 0
               /\ current_chunk[Len(current_chunk)].index + 1 # paragraphs[i].index
    THEN chunk_loop_closing_late(paragraphs, chunk_size, i + 1, Append(chunks, current_chunk),
                                 <<paragraphs[i]>>, Len(paragraphs[i].originalText))
    ELSE chunk_loop_closing_late(paragraphs, chunk_size, i + 1, chunks,
                                 Append(current_chunk, paragraphs[i]),
                                 current_size + Len(paragraphs[i].originalText))

\* The loop of chunked_paragraphs from paragraph i on; chunks are lists of paragraphs
RECURSIVE chunk_loop(_, _, _, _, _, _)
chunk_loop(paragraphs, chunk_size, i, chunks, current_chunk, current_size) ==
    IF i > Len(paragraphs)
    THEN IF current_chunk # <<>> THEN Append(chunks, current_chunk) ELSE chunks
    ELSE LET paragraph == paragraphs[i]
             paragraph_length == Len(paragraph.originalText)
             close == \/ (current_size + paragraph_length > chunk_size /\ Len(current_chunk) > 0)
                      \/ /\ Len(current_chunk) > 0
                         /\ current_chunk[Len(current_chunk)].index + 1 # paragraph.index
         IN  IF close
             THEN chunk_loop(paragraphs, chunk_size, i + 1, Append(chunks, current_chunk),
                             <<paragraph>>, paragraph_length)
             ELSE chunk_loop(paragraphs, chunk_size, i + 1, chunks,
                             Append(current_chunk, paragraph), current_size + paragraph_length)

chunked_paragraphs(paragraphs, chunk_size) ==
    chunk_loop(paragraphs, chunk_size, 1, <<>>, <<>>, 0)

\* zip(*corrections_history): the number of slots all the entries have
ZipLength(corrections_history) ==
    CHOOSE n \in 0..Len(corrections_history[1]) :
        /\ \A h \in 1..Len(corrections_history) : n <= Len(corrections_history[h])
        /\ \E h \in 1..Len(corrections_history) : n = Len(corrections_history[h])

SlotItems(corrections_history, slot) ==
    [h \in 1..Len(corrections_history) |-> corrections_history[h][slot]]

\* Variant of history_entries_match: two or more entries never count as matching
history_entries_never_match(corrections_history) ==
    Len(corrections_history) = 0 \/ Len(corrections_history) = 1

history_entries_match(corrections_history) ==
    IF Len(corrections_history) = 0 \/ Len(corrections_history) = 1 THEN TRUE
    ELSE \A slot \in 1..ZipLength(corrections_history) :
            Cardinality({corrections_history[h][slot] : h \in 1..Len(corrections_history)}) <= 1

CountOf(items, item) == Cardinality({i \in 1..Len(items) : items[i] = item})

\* Variant of most_common: among the keys with the largest count the last one wins
most_common_latest(items) ==
    Assigned(Dedupe(items), LAMBDA keys :
        keys[CHOOSE k \in 1..Len(keys) :
                /\ \A j \in 1..Len(keys) : CountOf(items, keys[j]) <= CountOf(items, keys[k])
                /\ \A j \in (k + 1)..Len(keys) :
                      CountOf(items, keys[j]) < CountOf(items, keys[k])])

\* Counter(items).most_common(1)[0][0]: the counter keeps first-occurrence order and
\* the first key with the largest count wins
most_common(items) ==
    Assigned(Dedupe(items), LAMBDA keys :
        keys[CHOOSE k \in 1..Len(keys) :
                /\ \A j \in 1..Len(keys) : CountOf(items, keys[j]) <= CountOf(items, keys[k])
                /\ \A j \in 1..(k - 1) : CountOf(items, keys[j]) < CountOf(items, keys[k])])

pick_best_history(corrections_history, corrections) ==
    IF Len(corrections_history) = 0 THEN corrections
    ELSE [slot \in 1..ZipLength(corrections_history) |->
            most_common(SlotItems(corrections_history, slot))]


(***************************************************************************)
(* Correction Orchestrator (ai_manager.py, AIManager._generate_correction) *)
(***************************************************************************)

MAX_TECHNICAL_RETRIES == 3

RE_RUN_MAX_RETRIES == 1

\* The try block: segment, normalize, validate; the corrections or the exception
parse_and_validate(paragraph_bundle, response) ==
    Assigned(OriginalTexts(paragraph_bundle), LAMBDA originals :
    Assigned(extract_corrections(paragraph_bundle, response), LAMBDA extracted :
    IF extracted.raised THEN Raise
    ELSE Assigned([i \in 1..Len(extracted.value) |->
                     post_process_correction(originals[i], extracted.value[i])],
                  LAMBDA processed :
         IF \E i \in 1..Len(processed) : processed[i].raised THEN Raise
         ELSE Assigned([i \in 1..Len(processed) |-> processed[i].value],
                       LAMBDA corrections :
              IF /\ Len(paragraph_bundle) >= 3
                 /\ ~validate_corrections(originals, corrections, FALSE).value
              THEN Raise
              ELSE IF \E i \in 1..Len(corrections) :
                          Len(corrections[i]) < 2 /\ Len(originals[i]) > 0
              THEN Raise
              ELSE Return(corrections)))))

\* The locals of _generate_correction.  corrections = None is the empty list here:
\* the only read of it that could see None is "if not corrections"
NewCycle(re_runs) ==
    [technical_retries |-> MAX_TECHNICAL_RETRIES,
     re_runs |-> re_runs,
     corrections |-> <<>>,
     corrections_history |-> <<>>]

\* Variant of on_technical_failure: the last technical retry is never used
on_technical_failure_one_retry_short(c) ==
    IF c.technical_retries <= 1
    THEN IF Len(c.corrections_history) > 0
         THEN [kind |-> "fallback",
               cycle |-> [c EXCEPT
                            !.corrections = c.corrections_history[Len(c.corrections_history)],
                            !.re_runs = 0]]
         ELSE [kind |-> "raise", cycle |-> c]
    ELSE [kind |-> "retry", cycle |-> [c EXCEPT !.technical_retries = @ - 1]]

\* Variant of on_technical_failure: the fallback leaves the re-runs as they were
on_technical_failure_keeping_re_runs(c) ==
    IF c.technical_retries <= 0
    THEN IF Len(c.corrections_history) > 0
         THEN [kind |-> "fallback",
               cycle |-> [c EXCEPT
                            !.corrections = c.corrections_history[Len(c.corrections_history)]]]
         ELSE [kind |-> "raise", cycle |-> c]
    ELSE [kind |-> "retry", cycle |-> [c EXCEPT !.technical_retries = @ - 1]]

\* The except branch: retry, fall back on the history, or raise
on_technical_failure(c) ==
    IF c.technical_retries <= 0
    THEN IF Len(c.corrections_history) > 0
         THEN [kind |-> "fallback",
               cycle |-> [c EXCEPT
                            !.corrections = c.corrections_history[Len(c.corrections_history)],
                            !.re_runs = 0]]
         ELSE [kind |-> "raise", cycle |-> c]
    ELSE [kind |-> "retry", cycle |-> [c EXCEPT !.technical_retries = @ - 1]]

\* Variant of restore_technical_retries: every accepted round puts the budget back
\* to the ceiling of a re-run
restore_technical_retries_to_ceiling(technical_retries) == RE_RUN_MAX_RETRIES

restore_technical_retries(technical_retries) == Min(technical_retries, RE_RUN_MAX_RETRIES)

\* "If no corrections are needed for any text"
full_match(paragraph_bundle, corrections) ==
    \A i \in 1..Len(paragraph_bundle) : corrections[i] = paragraph_bundle[i].originalText

\* After the inner loop: record the round, then stop or start a re-run
after_round(paragraph_bundle, c) ==
    LET c1 == [c EXCEPT
                 !.technical_retries = restore_technical_retries(@),
                 !.corrections_history = Append(@, c.corrections)]
        c2 == [c1 EXCEPT !.re_runs = @ - 1]
    IN  IF c1.re_runs <= 0 THEN [kind |-> "stop", cycle |-> c1]
        ELSE IF full_match(paragraph_bundle, c2.corrections)
        THEN [kind |-> "stop", cycle |-> [c2 EXCEPT !.corrections_history = <<>>]]
        ELSE IF Len(c2.corrections_history) > 1 /\ history_entries_match(c2.corrections_history)
        THEN [kind |-> "stop", cycle |-> c2]
        ELSE [kind |-> "rerun", cycle |-> c2]

\* One response, parsed and validated to result, handled up to the next prompt, the
\* return or the raise
handle_response(paragraph_bundle, c, result) ==
    LET step == IF result.raised THEN on_technical_failure(c)
                ELSE [kind |-> "accepted", cycle |-> [c EXCEPT !.corrections = result.value]]
    IN  IF step.kind \in {"accepted", "fallback"}
        THEN after_round(paragraph_bundle, step.cycle)
        ELSE step

\* The corrections the cycle hands to apply_corrections
final_corrections(c) == pick_best_history(c.corrections_history, c.corrections)

\* The end of _generate_correction: the bundle as the cycle leaves it
finish_cycle(paragraph_bundle, c) ==
    IF c.corrections = <<>> THEN paragraph_bundle
    ELSE apply_corrections(paragraph_bundle, final_corrections(c))


(***************************************************************************)
(* The stored chapters and the responses of the language model             *)
(***************************************************************************)

\* The largest configured number of re-runs (config.correctionReRuns)
MaxReRuns == 3

\* Original texts as the importer stores them (stripped, not empty): three plain
\* paragraphs, a one-character scene break, a dialogue line opened by an em-dash
\* and a "---" scene break
PlainTexts == << <<"a", "b", "c">>, <<"d", "e", "f">>, <<"g", "h", "i">> >>

ChapterTexts ==
    { SubSeq(PlainTexts, 1, n) : n \in 1..Len(PlainTexts) }
        \cup { << <<"*">> >>, << <<"EMDASH", "a", "b">> >>, << <<"-", "-", "-">> >> }

\* A correction the model proposes for a text: its last character changed
Suggestion(text) == SubSeq(text, 1, Len(text) - 1) \o <<"x">>

\* A manual edit of the user
ManualEdit(text) == text \o <<"m">>

\* The stored forms of a paragraph, by correction status
StoredForms(index, text) ==
    { Paragraph(index, text, None, None, "notGenerated"),
      Paragraph(index, text, Suggestion(text), None, "generated"),
      Paragraph(index, text, Suggestion(text), ManualEdit(text), "reviewed"),
      Paragraph(index, text, Suggestion(text), None, "accepted"),
      Paragraph(index, text, Suggestion(text), ManualEdit(text), "accepted"),
      Paragraph(index, text, Suggestion(text), None, "rejected"),
      Paragraph(index, text, None, None, "notRequired") }

\* The stored chapters, paragraphs indexed from 1 (project.py create_project): fresh
\* chapters, a chapter whose middle paragraph is already accepted (an index gap
\* among the pending ones), and one-paragraph chapters in every stored form
StoredChapters ==
    { [i \in 1..Len(texts) |-> Paragraph(i, texts[i], None, None, "notGenerated")] :
        texts \in ChapterTexts }
    \cup { [i \in 1..Len(PlainTexts) |->
              IF i = 2 THEN Paragraph(i, PlainTexts[i], Suggestion(PlainTexts[i]), None, "accepted")
              ELSE Paragraph(i, PlainTexts[i], None, None, "notGenerated")] }
    \cup UNION { { <<form>> : form \in StoredForms(1, texts[1]) } :
                    texts \in {t \in ChapterTexts : Len(t) = 1} }

\* config.simultaneousCorrectionSize: one plain paragraph at a time, or the default
ChunkSizes == {3, 500}

\* The originals returned unchanged in the requested format
EchoResponse(paragraph_bundle) == Join(OriginalTexts(paragraph_bundle), Separator)

\* The slots a response corrects: any for one or two paragraphs; none, the first or
\* all for more
CorrectedSlots(n) == IF n <= 2 THEN SUBSET (1..n) ELSE {{}, {1}, 1..n}

CandidateList(paragraph_bundle, slots) ==
    [i \in 1..Len(paragraph_bundle) |->
        IF i \in slots THEN Suggestion(paragraph_bundle[i].originalText)
        ELSE paragraph_bundle[i].originalText]

\* "Here is the corrected text:\n---\n"
PreambleLine == <<"H">> \o Tail(PreamblePhrase7) \o <<" ", "t", "e", "x", "t", ":", "\n", "-", "-", "-", "\n">>

\* What the awaited job may return (after _prompt_chat's strip): well-formed
\* answers, the prompt's trailing separator echoed, an answer behind a preamble,
\* an empty answer and an answer of one-character parts
ModelResponses(paragraph_bundle) ==
    { Join(CandidateList(paragraph_bundle, slots), Separator) :
        slots \in CorrectedSlots(Len(paragraph_bundle)) }
    \cup { EchoResponse(paragraph_bundle) \o <<"\n">> \o Separator,
           PreambleLine \o Join(CandidateList(paragraph_bundle, 1..Len(paragraph_bundle)),
                                <<"\n">> \o Separator \o <<"\n">>),
           <<>>,
           Join([i \in 1..Len(paragraph_bundle) |-> <<"z">>], Separator) }


\* The texts of the groups chunked_paragraphs can form from the stored chapters
GroupTexts ==
    UNION { { SubSeq(texts, i, j) : i \in 1..Len(texts), j \in 1..Len(texts) } \ {<<>>} :
              texts \in ChapterTexts }

AsBundle(texts) == [i \in 1..Len(texts) |-> Paragraph(i, texts[i], None, None, "notGenerated")]

\* parse_and_validate, which reads only the originals of the bundle, tabulated over
\* the groups and the responses above
ParsedResponses ==
    UNION { { [originals |-> texts, response |-> response,
               result |-> parse_and_validate(AsBundle(texts), response)] :
                response \in ModelResponses(AsBundle(texts)) } :
              texts \in GroupTexts }

Parsed(paragraph_bundle, response) ==
    (CHOOSE e \in ParsedResponses :
        e.originals = OriginalTexts(paragraph_bundle) /\ e.response = response).result

(***************************************************************************)
(* The correction flows: AIManager.generate_corrections over a chapter     *)
(* and main.py generate_correction for one paragraph                       *)
(***************************************************************************)

VARIABLES
    entry,        \* which entry point runs: "chapter" or "single"
    config,       \* database.get_config(): correctionReRuns, simultaneousCorrectionSize
    db,           \* the paragraphs table of the chapter: index -> stored paragraph
    paragraphs,   \* the Paragraph objects the flow loaded and mutates in place
    work_to_do,   \* the groups, each a list of positions in paragraphs
    group_i,      \* the group the for loop is at
    persist_i,    \* the paragraph of the group the update loop is at
    pc,           \* where the flow is: start, group, await, persist, done, failed
                  \* (pick, picked: final-answer selection on its own)
    cycle,        \* the locals of the running _generate_correction
    outcome,      \* per group: pending, running, applied, raised
    obs,          \* what the running (or last) cycle has done so far
    loaded,       \* the Paragraph objects as they were loaded
    reviewed,     \* the review requests served while a flow runs, in order
    task_queue,   \* JobQueue.task_queue: the jobs put and not yet taken, oldest first
    unfinished_tasks,  \* the count queue.Queue keeps for task_done() and join()
    lock,         \* JobQueue.lock: who holds it ("free", "clear")
    shutdown_event,    \* JobQueue.shutdown_event
    worker,       \* the worker thread: 0 when waiting in get(), else the job it runs
    jobs,         \* the Job objects created so far, in submission order
    flows,        \* the coroutines that submit jobs and await them
    waiter,       \* a thread in wait_for_completion: "idle" or "joining"
    generating_all,    \* AIManager._generating_all
    invocations   \* the generate_corrections_for_all coroutines started so far

queue_vars == <<task_queue, unfinished_tasks, lock, shutdown_event, worker, jobs, flows, waiter>>

manager_vars == <<generating_all, invocations>>

vars == <<entry, config, db, paragraphs, work_to_do, group_i, persist_i, pc, cycle,
          outcome, obs, loaded, reviewed, queue_vars, manager_vars>>

\* The flows that use the queue
MaxFlows == 2

\* JobQueue.__init__ and no coroutine started yet
\* AIManager.__init__: self._generating_all = False; nothing runs yet
AIManagerInit ==
    /\ generating_all = FALSE
    /\ invocations = <<>>

JobQueueInit ==
    /\ task_queue = <<>>
    /\ unfinished_tasks = 0
    /\ lock = "free"
    /\ shutdown_event = FALSE
    /\ worker = 0
    /\ jobs = <<>>
    /\ flows = [f \in 1..MaxFlows |-> [awaiting |-> 0, resumed |-> "no"]]
    /\ waiter = "idle"

NoCycle == NewCycle(0)

NewObs ==
    [group |-> 0,              \* the group of work_to_do the cycle corrects
     prompts |-> 0,            \* prompts submitted
     accepted |-> 0,           \* rounds that passed parsing and validation
     failures |-> 0,           \* responses that failed parsing or validation
     round_failures |-> 0,     \* failed responses since the last accepted round
     all_echo |-> TRUE,        \* every response so far was the originals unchanged
     fell_back |-> FALSE,      \* technical retries ran out with a history
     job_failed |-> FALSE,     \* the awaited job raised
     applied |-> <<>>,         \* the corrections handed to apply_corrections
     ended |-> "no"]           \* no, applied, raised

\* The group's Paragraph objects
Bundle(group) == [i \in 1..Len(group) |-> paragraphs[group[i]]]

LoadedBundle(group) == [i \in 1..Len(group) |-> loaded[group[i]]]

\* The positions in all of the paragraphs of a chunk
Positions(all, chunk) ==
    [i \in 1..Len(chunk) |-> CHOOSE p \in 1..Len(all) : all[p].index = chunk[i].index]

RECURSIVE SelectNotGenerated(_)
SelectNotGenerated(all) ==
    IF all = <<>> THEN <<>>
    ELSE IF Head(all).correctionStatus = "notGenerated"
    THEN <<Head(all)>> \o SelectNotGenerated(Tail(all))
    ELSE SelectNotGenerated(Tail(all))

Init ==
    /\ JobQueueInit
    /\ reviewed = <<>>
    /\ AIManagerInit
    /\ entry \in {"chapter", "single"}
    /\ \E re_runs \in 0..MaxReRuns, size \in ChunkSizes :
          /\ config = [correctionReRuns |-> re_runs, simultaneousCorrectionSize |-> size]
          \* the single-paragraph entry reads neither setting
          /\ entry = "single" => re_runs = 0 /\ size = 500
    /\ db \in StoredChapters
    /\ paragraphs = <<>>
    /\ loaded = <<>>
    /\ work_to_do = <<>>
    /\ group_i = 0
    /\ persist_i = 0
    /\ pc = "start"
    /\ cycle = NoCycle
    /\ outcome = <<>>
    /\ obs = NewObs

\* generate_corrections up to the for loop: get_chapter's paragraphs, the
\* notGenerated ones, chunked
GenerateCorrections ==
    /\ pc = "start"
    /\ entry = "chapter"
    /\ LET all == [i \in 1..Len(db) |-> db[i]]
           paragraphs_to_correct == SelectNotGenerated(all)
           chunks == chunked_paragraphs(paragraphs_to_correct, config.simultaneousCorrectionSize)
       IN  /\ paragraphs' = all
           /\ loaded' = all
           /\ IF Len(paragraphs_to_correct) < 1
              THEN /\ pc' = "done"
                   /\ UNCHANGED <<work_to_do, outcome, group_i, queue_vars, reviewed, manager_vars>>
              ELSE /\ pc' = "group"
                   /\ work_to_do' = [g \in 1..Len(chunks) |-> Positions(all, chunks[g])]
                   /\ outcome' = [g \in 1..Len(chunks) |-> "pending"]
                   /\ group_i' = 1
    /\ UNCHANGED <<entry, config, db, persist_i, cycle, obs, queue_vars, reviewed, manager_vars>>

\* _generate_correction up to its first await: the locals, the first prompt
StartCycle(group, re_runs) ==
    /\ cycle' = NewCycle(re_runs)
    /\ obs' = [NewObs EXCEPT !.group = group, !.prompts = 1]
    /\ pc' = "await"

\* main.py generate_correction: get_paragraph, then generate_single_correction
\* with no re-runs
GenerateSingleCorrection ==
    /\ pc = "start"
    /\ entry = "single"
    /\ \E paragraph_index \in 1..Len(db) :
          /\ paragraphs' = <<db[paragraph_index]>>
          /\ loaded' = <<db[paragraph_index]>>
    /\ work_to_do' = <<(<<1>>)>>
    /\ outcome' = <<"running">>
    /\ group_i' = 1
    /\ StartCycle(1, 0)
    /\ UNCHANGED <<entry, config, db, persist_i, queue_vars, reviewed, manager_vars>>

\* The for loop reaches a group: "await self._generate_correction(group, ...)"
StartGroup ==
    /\ pc = "group"
    /\ group_i <= Len(work_to_do)
    /\ outcome' = [outcome EXCEPT ![group_i] = "running"]
    /\ StartCycle(group_i, config.correctionReRuns)
    /\ UNCHANGED <<entry, config, db, paragraphs, loaded, work_to_do, group_i, persist_i, queue_vars, reviewed, manager_vars>>

\* The for loop is over
FinishChapter ==
    /\ pc = "group"
    /\ group_i > Len(work_to_do)
    /\ pc' = "done"
    /\ UNCHANGED <<entry, config, db, paragraphs, loaded, work_to_do, group_i, persist_i,
                   cycle, outcome, obs, queue_vars, reviewed, manager_vars>>

\* _generate_correction raised: generate_corrections logs it and continues with the
\* next group; main.py generate_correction answers with an error
CycleRaised ==
    /\ outcome' = [outcome EXCEPT ![group_i] = "raised"]
    /\ IF entry = "chapter"
       THEN pc' = "group" /\ group_i' = group_i + 1
       ELSE pc' = "failed" /\ UNCHANGED group_i
    /\ UNCHANGED <<paragraphs, persist_i, queue_vars, reviewed, manager_vars>>

\* "response = await task" returns, and the cycle runs to its next await
PromptResponse ==
    /\ pc = "await"
    /\ LET group == work_to_do[group_i]
           paragraph_bundle == Bundle(group)
       IN  \E response \in ModelResponses(paragraph_bundle) :
           \E result \in {Parsed(paragraph_bundle, response)} :
           \E next \in {handle_response(paragraph_bundle, cycle, result)} :
              LET seen == [obs EXCEPT
                             !.accepted = IF result.raised THEN @ ELSE @ + 1,
                             !.failures = IF result.raised THEN @ + 1 ELSE @,
                             !.round_failures = IF result.raised THEN @ + 1 ELSE 0,
                             !.all_echo = @ /\ response = EchoResponse(paragraph_bundle),
                             !.fell_back = result.raised /\ next.kind # "retry"
                                              /\ next.kind # "raise"]
              IN  /\ cycle' = next.cycle
                  /\ CASE next.kind \in {"retry", "rerun"} ->
                            /\ obs' = [seen EXCEPT !.prompts = @ + 1]
                            /\ UNCHANGED <<paragraphs, outcome, group_i, persist_i, pc, queue_vars, reviewed, manager_vars>>
                       [] next.kind = "stop" ->
                            /\ obs' = [seen EXCEPT !.ended = "applied",
                                                   !.applied = final_corrections(next.cycle)]
                            /\ paragraphs' =
                                 LET done == finish_cycle(paragraph_bundle, next.cycle)
                                 IN  [p \in 1..Len(paragraphs) |->
                                        IF \E i \in 1..Len(group) : group[i] = p
                                        THEN done[CHOOSE i \in 1..Len(group) : group[i] = p]
                                        ELSE paragraphs[p]]
                            /\ outcome' = [outcome EXCEPT ![group_i] = "applied"]
                            /\ persist_i' = 1
                            /\ pc' = "persist"
                            /\ UNCHANGED group_i
                       [] next.kind = "raise" ->
                            /\ obs' = [seen EXCEPT !.ended = "raised"]
                            /\ CycleRaised
    /\ UNCHANGED <<entry, config, db, loaded, work_to_do, queue_vars, reviewed, manager_vars>>

\* Variant of PromptFails: the job's error is handled like a response that failed
\* parsing, as long as technical retries are left
PromptFailsRetried ==
    /\ pc = "await"
    /\ on_technical_failure(cycle).kind = "retry"
    /\ cycle' = on_technical_failure(cycle).cycle
    /\ obs' = [obs EXCEPT !.job_failed = TRUE, !.all_echo = FALSE, !.prompts = @ + 1]
    /\ UNCHANGED <<entry, config, db, paragraphs, loaded, work_to_do, group_i, persist_i, pc,
                   outcome, queue_vars, reviewed, manager_vars>>

\* "response = await task" raises what the job raised (_prompt_chat: an Ollama error)
PromptFails ==
    /\ pc = "await"
    /\ obs' = [obs EXCEPT !.ended = "raised", !.job_failed = TRUE, !.all_echo = FALSE]
    /\ CycleRaised
    /\ UNCHANGED <<entry, config, db, loaded, work_to_do, cycle, queue_vars, reviewed, manager_vars>>

\* What follows the last update_paragraph of a group
AfterPersist ==
    IF persist_i < Len(work_to_do[group_i])
    THEN /\ persist_i' = persist_i + 1
         /\ UNCHANGED <<pc, group_i, queue_vars, reviewed, manager_vars>>
    ELSE /\ persist_i' = 0
         /\ IF entry = "chapter"
            THEN pc' = "group" /\ group_i' = group_i + 1
            ELSE pc' = "done" /\ UNCHANGED group_i

\* database.update_paragraph(paragraph) commits the paragraph's fields
UpdateParagraph ==
    /\ pc = "persist"
    /\ LET paragraph == paragraphs[work_to_do[group_i][persist_i]]
       IN  db' = [db EXCEPT ![paragraph.index] = paragraph]
    /\ AfterPersist
    /\ UNCHANGED <<entry, config, paragraphs, loaded, work_to_do, cycle, outcome, obs, queue_vars, reviewed, manager_vars>>

\* database.update_paragraph(paragraph) raises (the storage fails): nothing in
\* generate_corrections catches it; main.py generate_correction answers with an error
UpdateParagraphFails ==
    /\ pc = "persist"
    /\ pc' = "failed"
    /\ UNCHANGED <<entry, config, db, paragraphs, loaded, work_to_do, group_i, persist_i,
                   cycle, outcome, obs, queue_vars, reviewed, manager_vars>>

\* The end of _generate_correction on its own: pick_best_history over the history
\* and the corrections the cycle holds
PickBestHistory ==
    /\ pc = "pick"
    /\ obs' = [obs EXCEPT !.applied = final_corrections(cycle), !.ended = "applied"]
    /\ pc' = "picked"
    /\ UNCHANGED <<entry, config, db, paragraphs, loaded, work_to_do, group_i, persist_i,
                   cycle, outcome, queue_vars, reviewed, manager_vars>>

Next ==
    \/ GenerateCorrections
    \/ GenerateSingleCorrection
    \/ StartGroup
    \/ FinishChapter
    \/ PromptResponse
    \/ PromptFails
    \/ UpdateParagraph
    \/ UpdateParagraphFails

Spec == Init /\ [][Next]_vars

\* The longest history and the most slots of the histories below
MaxHistory == 3

MaxSlots == 2

\* The strings a slot of a history entry holds
SlotTexts == {<<"a", "b">>, <<"a", "x">>, <<"c", "d">>}

\* Lists of one string per slot
SlotLists == UNION { [1..n -> SlotTexts] : n \in 1..MaxSlots }

\* Histories as _generate_correction builds them: every entry has one string per
\* paragraph of the group
Histories ==
    UNION { UNION { [1..len -> [1..n -> SlotTexts]] : len \in 0..MaxHistory } :
              n \in 1..MaxSlots }

\* pick_best_history is reached with any history and any last corrections
InitPick ==
    /\ JobQueueInit
    /\ reviewed = <<>>
    /\ AIManagerInit
    /\ entry = "chapter"
    /\ config = [correctionReRuns |-> MaxHistory, simultaneousCorrectionSize |-> 500]
    /\ db = <<>>
    /\ paragraphs = <<>>
    /\ loaded = <<>>
    /\ work_to_do = <<>>
    /\ group_i = 0
    /\ persist_i = 0
    /\ outcome = <<>>
    /\ obs = NewObs
    /\ pc = "pick"
    /\ \E corrections_history \in Histories, corrections \in SlotLists :
          /\ corrections_history # <<>> =>
                corrections = corrections_history[Len(corrections_history)]
          /\ cycle = [technical_retries |-> 0, re_runs |-> 0,
                      corrections |-> corrections,
                      corrections_history |-> corrections_history]

SpecPick == InitPick /\ [][PickBestHistory]_vars


(***************************************************************************)
(* apply_corrections on its own                                            *)
(***************************************************************************)

\* The most paragraphs of a bundle handed to apply_corrections below
MaxApplied == 2

ApplyOriginal == <<"a", "b">>

\* Texts a suggestion, a manual edit or a chosen correction may be
ApplyTexts == {<<"a", "x">>, <<"a", "m">>}

\* Paragraphs as the operations on them leave them stored: notGenerated and
\* notRequired paragraphs hold no texts (project.py create_project, main.py
\* clear_paragraph_data, apply_corrections), generated ones hold a suggestion and
\* no manual edit (apply_corrections); the human statuses hold anything
ApplyForms(index) ==
    { Paragraph(index, ApplyOriginal, None, None, "notGenerated"),
      Paragraph(index, ApplyOriginal, None, None, "notRequired") }
    \cup { Paragraph(index, ApplyOriginal, text, None, "generated") : text \in ApplyTexts }
    \cup { Paragraph(index, ApplyOriginal, corrected, manual, status) :
             corrected \in ApplyTexts \cup {None},
             manual \in ApplyTexts \cup {None},
             status \in {"reviewed", "accepted", "rejected"} }

\* The bundles: one paragraph in any form, with pending ones behind it
ApplyBundles ==
    UNION { { [i \in 1..n |-> IF i = 1 THEN first
                              ELSE Paragraph(i, ApplyOriginal, None, None, "notGenerated")] :
                first \in ApplyForms(1) } :
            n \in 1..MaxApplied }

InitApply ==
    /\ JobQueueInit
    /\ reviewed = <<>>
    /\ AIManagerInit
    /\ entry = "chapter"
    /\ config = [correctionReRuns |-> 0, simultaneousCorrectionSize |-> 500]
    /\ db = <<>>
    /\ work_to_do = <<>>
    /\ group_i = 0
    /\ persist_i = 0
    /\ outcome = <<>>
    /\ obs = NewObs
    /\ pc = "apply"
    /\ paragraphs \in ApplyBundles
    /\ loaded = paragraphs
    /\ \E corrections \in [1..Len(paragraphs) -> ApplyTexts \cup {ApplyOriginal}] :
          cycle = [technical_retries |-> 0, re_runs |-> 0,
                   corrections |-> corrections, corrections_history |-> <<>>]

\* apply_corrections(paragraph_bundle, corrections, ...) mutates the bundle in place
ApplyCorrections ==
    /\ pc = "apply"
    /\ paragraphs' = apply_corrections(paragraphs, cycle.corrections)
    /\ obs' = [obs EXCEPT !.applied = cycle.corrections, !.ended = "applied"]
    /\ pc' = "applied"
    /\ UNCHANGED <<entry, config, db, loaded, work_to_do, group_i, persist_i, cycle, outcome, queue_vars, reviewed, manager_vars>>

SpecApply == InitApply /\ [][ApplyCorrections]_vars


(***************************************************************************)
(* The review operations on stored paragraphs, one request at a time       *)
(***************************************************************************)

\* The paragraphs of the chapter under review
MaxReviewed == 2

\* A request's correctedText: absent, empty, or a text
RequestTexts == {None, <<>>} \cup ApplyTexts

\* text = request.get("correctedText", None); an empty text counts as absent
request_text(text) == IF text # None /\ Len(text) < 1 THEN None ELSE text

\* main.py clear_paragraph_data
clear_paragraph_data(paragraph) ==
    [paragraph EXCEPT !.correctedText = None, !.manuallyCorrectedText = None,
                      !.correctionStatus = "notGenerated"]

\* main.py paragraph_save_manual
paragraph_save_manual(paragraph, request) ==
    IF request_text(request) = paragraph.correctedText
    THEN [paragraph EXCEPT !.manuallyCorrectedText = None]
    ELSE [paragraph EXCEPT !.manuallyCorrectedText = request_text(request),
                           !.correctionStatus = "reviewed"]

\* main.py paragraph_approve
paragraph_approve(paragraph, request) ==
    [paragraph EXCEPT
        !.manuallyCorrectedText =
            IF request_text(request) = None THEN @
            ELSE IF request_text(request) = paragraph.correctedText THEN None
            ELSE request_text(request),
        !.correctionStatus = "accepted"]

\* main.py paragraph_reject
paragraph_reject(paragraph) == [paragraph EXCEPT !.correctionStatus = "rejected"]

\* The corrections a correction cycle can end with for a bundle: one text per
\* paragraph that validate_corrections lets through
CycleResults(bundle) ==
    { corrections \in [1..Len(bundle) -> ApplyTexts \cup {ApplyOriginal}] :
        validate_corrections(OriginalTexts(bundle), corrections, TRUE) = Return(TRUE) }

\* The chapter as create_project stores it
InitReview ==
    /\ JobQueueInit
    /\ reviewed = <<>>
    /\ AIManagerInit
    /\ entry = "review"
    /\ config = [correctionReRuns |-> 0, simultaneousCorrectionSize |-> 500]
    /\ db = [i \in 1..MaxReviewed |-> Paragraph(i, ApplyOriginal, None, None, "notGenerated")]
    /\ paragraphs = <<>>
    /\ loaded = <<>>
    /\ work_to_do = <<>>
    /\ group_i = 0
    /\ persist_i = 0
    /\ outcome = <<>>
    /\ obs = NewObs
    /\ pc = "idle"
    /\ cycle = NoCycle

\* What a request leaves behind: the paragraph it was about and its name
Served(name, index) ==
    /\ group_i' = index
    /\ obs' = [obs EXCEPT !.ended = name]
    /\ UNCHANGED <<entry, config, paragraphs, loaded, work_to_do, persist_i, pc, cycle, outcome, queue_vars, reviewed, manager_vars>>

ClearParagraphData ==
    \E i \in 1..Len(db) :
        /\ db' = [db EXCEPT ![i] = clear_paragraph_data(db[i])]
        /\ Served("clear", i)

ParagraphSaveManual ==
    \E i \in 1..Len(db), request \in RequestTexts :
        /\ db' = [db EXCEPT ![i] = paragraph_save_manual(db[i], request)]
        /\ Served("saveManual", i)

ParagraphApprove ==
    \E i \in 1..Len(db), request \in RequestTexts :
        /\ db' = [db EXCEPT ![i] = paragraph_approve(db[i], request)]
        /\ Served("approve", i)

ParagraphReject ==
    \E i \in 1..Len(db) :
        /\ db' = [db EXCEPT ![i] = paragraph_reject(db[i])]
        /\ Served("reject", i)

\* main.py generate_correction: the paragraph is read, a cycle without re-runs
\* ends in apply_corrections on it, and it is written back
GenerateCorrection ==
    \E i \in 1..Len(db) :
        \E corrections \in CycleResults(<<db[i]>>) :
            /\ db' = [db EXCEPT ![i] = apply_corrections(<<db[i]>>, corrections)[1]]
            /\ Served("generateCorrection", i)

\* generate_corrections for the chapter: its notGenerated paragraphs, which fit
\* one group here, are corrected and written back
GenerateChapterCorrections ==
    /\ SelectNotGenerated(db) # <<>>
    /\ \E selected \in {SelectNotGenerated(db)} :
          \E corrections \in CycleResults(selected) :
              \E applied \in {apply_corrections(selected, corrections)} :
                  db' = [i \in 1..Len(db) |->
                            IF \E k \in 1..Len(applied) : applied[k].index = i
                            THEN applied[CHOOSE k \in 1..Len(applied) : applied[k].index = i]
                            ELSE db[i]]
    /\ Served("generateCorrections", 0)

NextReview ==
    \/ ClearParagraphData
    \/ ParagraphSaveManual
    \/ ParagraphApprove
    \/ ParagraphReject
    \/ GenerateCorrection
    \/ GenerateChapterCorrections

SpecReview == InitReview /\ [][NextReview]_vars


(***************************************************************************)
(* chunked_paragraphs on its own                                           *)
(***************************************************************************)

\* The most paragraphs handed to chunked_paragraphs below, and the highest index
MaxChunked == 4
MaxIndex == 5

\* Original texts of three lengths
ChunkTexts == {<<"a">>, <<"a", "b">>, <<"a", "b", "c", "d">>}

\* Smaller than every text but one, between the texts, larger than each of them
ChunkLimits == {1, 3, 5}

\* The paragraphs of a chapter still to be corrected, as get_chapter orders them:
\* by index, possibly with gaps where paragraphs are already done
ChunkInputs ==
    UNION { { paragraphs_in \in [1..n -> [index : 1..MaxIndex, originalText : ChunkTexts,
                                         correctedText : {None}, manuallyCorrectedText : {None},
                                         correctionStatus : {"notGenerated"}]] :
                \A i \in 1..(n - 1) : paragraphs_in[i].index < paragraphs_in[i + 1].index } :
            n \in 0..MaxChunked }

InitChunk ==
    /\ JobQueueInit
    /\ reviewed = <<>>
    /\ AIManagerInit
    /\ entry = "chunk"
    /\ \E size \in ChunkLimits :
          config = [correctionReRuns |-> 0, simultaneousCorrectionSize |-> size]
    /\ db = <<>>
    /\ paragraphs \in ChunkInputs
    /\ loaded = paragraphs
    /\ work_to_do = <<>>
    /\ group_i = 0
    /\ persist_i = 0
    /\ outcome = <<>>
    /\ obs = NewObs
    /\ pc = "chunk"
    /\ cycle = NoCycle

\* work_to_do = chunked_paragraphs(paragraphs, chunk_size)
ChunkedParagraphs ==
    /\ pc = "chunk"
    /\ work_to_do' = chunked_paragraphs(paragraphs, config.simultaneousCorrectionSize)
    /\ pc' = "chunked"
    /\ UNCHANGED <<entry, config, db, paragraphs, loaded, group_i, persist_i, cycle, outcome, obs, queue_vars, reviewed, manager_vars>>

SpecChunk == InitChunk /\ [][ChunkedParagraphs]_vars

\* The combined length of the original texts of a group
RECURSIVE CombinedLength(_)
CombinedLength(group) ==
    IF group = <<>> THEN 0
    ELSE Len(Head(group).originalText) + CombinedLength(Tail(group))


(***************************************************************************)
(* The job queue: one worker thread, coroutines that submit and await      *)
(***************************************************************************)

\* The jobs submitted in a run
MaxJobs == 3

\* Job.__init__; runs counts the calls of run()
Job == [future |-> "pending", success |-> "None", pending |-> TRUE, runs |-> 0]

\* Job.run with a task that raises or returns
run(job, raises) ==
    [job EXCEPT !.success = IF raises THEN "False" ELSE "True",
                !.future = IF raises THEN "exception" ELSE "result",
                !.pending = FALSE,
                !.runs = @ + 1]

\* Variant of get: the newest task is taken
get_newest(queue) ==
    [task |-> queue[Len(queue)], rest |-> SubSeq(queue, 1, Len(queue) - 1)]

\* queue.Queue.get on a queue that is not empty: the oldest task
get(queue) == [task |-> Head(queue), rest |-> Tail(queue)]

\* await task: asyncio.wrap_future(self.future) hands on the result or the exception
wait(job) == IF job.future = "result" THEN "value" ELSE "raised"

InitQueue ==
    /\ JobQueueInit
    /\ reviewed = <<>>
    /\ AIManagerInit
    /\ entry = "queue"
    /\ config = [correctionReRuns |-> 0, simultaneousCorrectionSize |-> 500]
    /\ db = <<>>
    /\ paragraphs = <<>>
    /\ loaded = <<>>
    /\ work_to_do = <<>>
    /\ group_i = 0
    /\ persist_i = 0
    /\ outcome = <<>>
    /\ obs = NewObs
    /\ pc = "idle"
    /\ cycle = NoCycle

flow_vars == <<entry, config, db, paragraphs, work_to_do, group_i, persist_i, pc, cycle,
               outcome, obs, loaded, reviewed, manager_vars>>

\* JobQueue.submit(task): put under the lock
submit ==
    /\ Len(jobs) < MaxJobs
    /\ lock = "free"
    /\ jobs' = Append(jobs, Job)
    /\ task_queue' = Append(task_queue, Len(jobs) + 1)
    /\ unfinished_tasks' = unfinished_tasks + 1
    /\ UNCHANGED <<lock, shutdown_event, worker, waiter, flow_vars>>

\* _generate_correction: task = Job(...); self.job_queue.submit(task); response = await task
SubmitAndAwait(f) ==
    /\ flows[f].awaiting = 0
    /\ submit
    /\ flows' = [flows EXCEPT ![f] = [awaiting |-> Len(jobs) + 1, resumed |-> "no"]]

\* prompt_chat, analyze_writing_style, download_recommended: the job is submitted
\* and handed to a caller that need not await it
SubmitOnly ==
    /\ submit
    /\ UNCHANGED flows

\* _worker: the loop condition and task_queue.get
WorkerGet ==
    /\ worker = 0
    /\ ~shutdown_event
    /\ task_queue # <<>>
    /\ worker' = get(task_queue).task
    /\ task_queue' = get(task_queue).rest
    /\ UNCHANGED <<unfinished_tasks, lock, shutdown_event, jobs, flows, waiter, flow_vars>>

\* _worker: task.run() and task_done()
WorkerRun ==
    /\ worker # 0
    /\ \E raises \in BOOLEAN : jobs' = [jobs EXCEPT ![worker] = run(@, raises)]
    /\ unfinished_tasks' = unfinished_tasks - 1
    /\ worker' = 0
    /\ UNCHANGED <<task_queue, lock, shutdown_event, flows, waiter, flow_vars>>

\* The event loop resumes a coroutine whose job's future is set
Resume(f) ==
    /\ flows[f].awaiting # 0
    /\ jobs[flows[f].awaiting].future # "pending"
    /\ flows' = [flows EXCEPT ![f] = [awaiting |-> 0, resumed |-> wait(jobs[flows[f].awaiting])]]
    /\ UNCHANGED <<task_queue, unfinished_tasks, lock, shutdown_event, worker, jobs, waiter,
                   flow_vars>>

\* JobQueue.clear: the lock is taken
ClearBegin ==
    /\ lock = "free"
    /\ lock' = "clear"
    /\ UNCHANGED <<task_queue, unfinished_tasks, shutdown_event, worker, jobs, flows, waiter,
                   flow_vars>>

\* JobQueue.clear: one pass of the loop, get_nowait() and task_done()
ClearStep ==
    /\ lock = "clear"
    /\ task_queue # <<>>
    /\ task_queue' = get(task_queue).rest
    /\ unfinished_tasks' = unfinished_tasks - 1
    /\ UNCHANGED <<lock, shutdown_event, worker, jobs, flows, waiter, flow_vars>>

\* JobQueue.clear: the queue is empty, the lock is released
ClearEnd ==
    /\ lock = "clear"
    /\ task_queue = <<>>
    /\ lock' = "free"
    /\ UNCHANGED <<task_queue, unfinished_tasks, shutdown_event, worker, jobs, flows, waiter,
                   flow_vars>>

\* JobQueue.wait_for_completion is called: task_queue.join()
WaitForCompletion ==
    /\ waiter = "idle"
    /\ waiter' = "joining"
    /\ UNCHANGED <<task_queue, unfinished_tasks, lock, shutdown_event, worker, jobs, flows,
                   flow_vars>>

\* join() returns once every task put was marked done
WaitForCompletionReturns ==
    /\ waiter = "joining"
    /\ unfinished_tasks = 0
    /\ waiter' = "idle"
    /\ UNCHANGED <<task_queue, unfinished_tasks, lock, shutdown_event, worker, jobs, flows,
                   flow_vars>>

\* JobQueue.shutdown: the worker leaves its loop after the task it runs
Shutdown ==
    /\ ~shutdown_event
    /\ shutdown_event' = TRUE
    /\ UNCHANGED <<task_queue, unfinished_tasks, lock, worker, jobs, flows, waiter, flow_vars>>

NextQueue ==
    \/ \E f \in 1..MaxFlows : SubmitAndAwait(f)
    \/ SubmitOnly
    \/ WorkerGet
    \/ WorkerRun
    \/ \E f \in 1..MaxFlows : Resume(f)
    \/ ClearBegin
    \/ ClearStep
    \/ ClearEnd
    \/ WaitForCompletion
    \/ WaitForCompletionReturns
    \/ Shutdown

\* The worker is a thread of its own that loops until shutdown, the event loop
\* resumes every coroutine whose future is set, and clear() runs to its end
SpecQueue ==
    /\ InitQueue
    /\ [][NextQueue]_vars
    /\ WF_vars(WorkerGet)
    /\ WF_vars(WorkerRun)
    /\ WF_vars(\E f \in 1..MaxFlows : Resume(f))
    /\ WF_vars(ClearStep)
    /\ WF_vars(ClearEnd)

\* The job has been taken by the worker
Started(j) == worker = j \/ ~jobs[j].pending

\* The job is still in the queue
Queued(j) == \E k \in 1..Len(task_queue) : task_queue[k] = j


(***************************************************************************)
(* Review requests served while a correction flow is suspended             *)
(***************************************************************************)

\* The review requests served during one flow
MaxReviews == 1

\* A request handler reads the stored paragraph, changes it and writes it back
\* while the flow waits for the model or for the database
Commit(name, index, paragraph) ==
    /\ pc \in {"await", "persist"}
    /\ Len(reviewed) < MaxReviews
    /\ db' = [db EXCEPT ![index] = paragraph]
    /\ reviewed' = Append(reviewed, [action |-> name, index |-> index])
    /\ UNCHANGED <<entry, config, paragraphs, loaded, work_to_do, group_i, persist_i, pc, cycle,
                   outcome, obs, queue_vars, manager_vars>>

\* The correctedText of a request: absent, or the user's edit of the paragraph
RequestsFor(paragraph) == {None, ManualEdit(paragraph.originalText)}

ApproveDuringFlow ==
    \E i \in 1..Len(db) : \E request \in RequestsFor(db[i]) :
        Commit("approve", i, paragraph_approve(db[i], request))

RejectDuringFlow ==
    \E i \in 1..Len(db) : Commit("reject", i, paragraph_reject(db[i]))

SaveManualDuringFlow ==
    \E i \in 1..Len(db) : \E request \in RequestsFor(db[i]) :
        Commit("saveManual", i, paragraph_save_manual(db[i], request))

ClearDuringFlow ==
    \E i \in 1..Len(db) : Commit("clear", i, clear_paragraph_data(db[i]))

NextRace ==
    \/ GenerateCorrections
    \/ GenerateSingleCorrection
    \/ StartGroup
    \/ FinishChapter
    \/ PromptResponse
    \/ PromptFails
    \/ UpdateParagraph
    \/ UpdateParagraphFails
    \/ ApproveDuringFlow
    \/ RejectDuringFlow
    \/ SaveManualDuringFlow
    \/ ClearDuringFlow

\* The flows of Init without re-runs: a flow then ends with its first accepted round
InitRace == Init /\ config.correctionReRuns = 0

SpecRace == InitRace /\ [][NextRace]_vars

\* The text a stored paragraph shows that apply_corrections chose for it
ChosenText(paragraph) ==
    IF paragraph.correctedText = None THEN paragraph.originalText ELSE paragraph.correctedText


(***************************************************************************)
(* extract_corrections on its own                                          *)
(***************************************************************************)

\* The most paragraphs of a bundle, and the most pieces of a response
MaxExpected == 3
MaxTokens == 5

\* The pieces responses are made of: a letter, a space, a line break, the two
\* separators and the start of a preamble
ResponseTokens ==
    { <<"a">>, <<" ">>, NewLine, Separator, EmDash, <<"H">> \o Tail(PreamblePhrase7) }

\* What the awaited job returns: _prompt_chat strips the model's text
ExtractResponses ==
    { response \in UNION { { FlattenSeq(tokens) : tokens \in [1..n -> ResponseTokens] } :
                              n \in 0..MaxTokens } :
        Strip(response) = response }

InitExtract ==
    /\ JobQueueInit
    /\ reviewed = <<>>
    /\ AIManagerInit
    /\ entry = "extract"
    /\ config = [correctionReRuns |-> 0, simultaneousCorrectionSize |-> 500]
    /\ db = <<>>
    /\ \E expected \in 1..MaxExpected :
          paragraphs = AsBundle([i \in 1..expected |-> PlainTexts[1]])
    /\ loaded = paragraphs
    /\ work_to_do = <<>>
    /\ group_i = 0
    /\ persist_i = 0
    /\ outcome = <<>>
    /\ obs = NewObs
    /\ pc = "extract"
    /\ cycle = NoCycle

\* corrections = extract_corrections(paragraph_bundle, response)
ExtractCorrections ==
    /\ pc = "extract"
    /\ \E response \in ExtractResponses :
          outcome' = [response |-> response,
                      result |-> extract_corrections(paragraphs, response)]
    /\ pc' = "extracted"
    /\ UNCHANGED <<entry, config, db, paragraphs, loaded, work_to_do, group_i, persist_i, cycle,
                   obs, queue_vars, reviewed, manager_vars>>

SpecExtract == InitExtract /\ [][ExtractCorrections]_vars


(***************************************************************************)
(* extract_corrections on strings joined with the separator                *)
(***************************************************************************)

\* The most strings joined
MaxParts == 3

\* The strings joined: plain ones, ones with whitespace at an end or nothing but
\* whitespace, ones with a dash at an end, and one with a blank line inside
PartTexts ==
    { <<"a">>, <<"b">>, <<"a", " ", "b">>, <<" ", "a">>, <<"a", " ">>, <<" ">>,
      <<"a", "-">>, <<"-", "a">>, <<"a", "\n", "\n", "b">> }

InitJoin ==
    /\ JobQueueInit
    /\ reviewed = <<>>
    /\ AIManagerInit
    /\ entry = "join"
    /\ config = [correctionReRuns |-> 0, simultaneousCorrectionSize |-> 500]
    /\ db = <<>>
    /\ \E n \in 1..MaxParts : \E parts \in [1..n -> PartTexts] :
          /\ paragraphs = AsBundle([i \in 1..n |-> PlainTexts[1]])
          /\ cycle = [technical_retries |-> 0, re_runs |-> 0,
                      corrections |-> parts, corrections_history |-> <<>>]
    /\ loaded = paragraphs
    /\ work_to_do = <<>>
    /\ group_i = 0
    /\ persist_i = 0
    /\ outcome = <<>>
    /\ obs = NewObs
    /\ pc = "join"

\* extract_corrections(paragraph_bundle, "---".join(parts))
ExtractJoined ==
    /\ pc = "join"
    /\ outcome' = [response |-> Join(cycle.corrections, Separator),
                   result |-> extract_corrections(paragraphs, Join(cycle.corrections, Separator))]
    /\ pc' = "joined"
    /\ UNCHANGED <<entry, config, db, paragraphs, loaded, work_to_do, group_i, persist_i, cycle,
                   obs, queue_vars, reviewed, manager_vars>>

SpecJoin == InitJoin /\ [][ExtractJoined]_vars

\* A string the separator stage hands back as it is: not blank, no whitespace at
\* its ends, no separator inside and no dash at its end to run into the separator
Separable(part) ==
    /\ Len(part) > 0
    /\ Strip(part) = part
    /\ ~Contains(part, Separator)
    /\ ~EndsWith(part, <<"-">>)


\* The parts the separator stage of extract_corrections sees in a response
Segments(response) == NonBlank(StripAll(Split(response, Separator)))

\* No phrase that is_ai_preamble looks for occurs anywhere in the text
NoPreamble(text) ==
    \A phrase \in {PreamblePhrase1, PreamblePhrase2, PreamblePhrase3, PreamblePhrase4,
                   PreamblePhrase5, PreamblePhrase6, PreamblePhrase7, PreamblePhrase8} :
        ~Contains(Lower(text), phrase)


(***************************************************************************)
(* validate_corrections on its own                                         *)
(***************************************************************************)

\* The most pairs validated together
MaxPairs == 2

\* Originals: an empty one, a short one, a longer one
ValidatedOriginals == {<<>>, <<"a", "b">>, <<"a", "b", "c", "d">>}

\* Candidates at every distance from them
ValidatedCandidates ==
    {<<>>, <<"a", "b">>, <<"a", "x">>, <<"x", "y">>, <<"a", "b", "c", "d">>,
     <<"a", "b", "x", "y">>, <<"w", "x", "y", "z">>}

InitValidate ==
    /\ JobQueueInit
    /\ reviewed = <<>>
    /\ AIManagerInit
    /\ entry = "validate"
    /\ config = [correctionReRuns |-> 0, simultaneousCorrectionSize |-> 500]
    /\ db = <<>>
    /\ paragraphs = <<>>
    /\ loaded = <<>>
    /\ work_to_do = <<>>
    /\ group_i = 0
    /\ persist_i = 0
    /\ outcome = <<>>
    /\ obs = NewObs
    /\ pc = "validate"
    /\ \E n \in 1..MaxPairs :
          \E original \in [1..n -> ValidatedOriginals], corrections \in [1..n -> ValidatedCandidates],
             all_must_pass \in BOOLEAN :
              cycle = [technical_retries |-> 0, re_runs |-> 0, corrections_history |-> <<>>,
                       original |-> original, corrections |-> corrections,
                       all_must_pass |-> all_must_pass]

\* validate_corrections(original, corrections, all_must_pass=...)
ValidateCorrections ==
    /\ pc = "validate"
    /\ outcome' = validate_corrections(cycle.original, cycle.corrections, cycle.all_must_pass)
    /\ pc' = "validated"
    /\ UNCHANGED <<entry, config, db, paragraphs, loaded, work_to_do, group_i, persist_i, cycle,
                   obs, queue_vars, reviewed, manager_vars>>

SpecValidate == InitValidate /\ [][ValidateCorrections]_vars


(***************************************************************************)
(* post_process_correction on a text and itself                            *)
(***************************************************************************)

\* The longest of the short originals
MaxOriginalLen == 3

\* The characters of the short originals: a letter, whitespace, dashes, quotes and
\* apostrophes of both styles, punctuation, an asterisk
OriginalChars ==
    {"a", " ", "\n", "-", "EMDASH", "LDQ", "RDQ", "\"", "LSQ", "RSQ", "'", ".", ",", "?", "*"}

\* Original texts: every short text, a sentence that begins like a preamble and
\* one that says nothing has to be corrected
NormalizedOriginals ==
    UNION { [1..n -> OriginalChars] : n \in 1..MaxOriginalLen }
        \cup { <<"H">> \o Tail(PreamblePhrase7), <<"N">> \o Tail(NoCorrectionsNeededPhrase) }

InitNormalize ==
    /\ JobQueueInit
    /\ reviewed = <<>>
    /\ AIManagerInit
    /\ entry = "normalize"
    /\ config = [correctionReRuns |-> 0, simultaneousCorrectionSize |-> 500]
    /\ db = <<>>
    /\ \E original \in NormalizedOriginals : paragraphs = AsBundle(<<original>>)
    /\ loaded = paragraphs
    /\ work_to_do = <<>>
    /\ group_i = 0
    /\ persist_i = 0
    /\ outcome = <<>>
    /\ obs = NewObs
    /\ pc = "normalize"
    /\ cycle = NoCycle

\* post_process_correction(paragraph.originalText, correction) with the original
\* as the correction
PostProcessOriginal ==
    /\ pc = "normalize"
    /\ outcome' = post_process_correction(paragraphs[1].originalText, paragraphs[1].originalText)
    /\ pc' = "normalized"
    /\ UNCHANGED <<entry, config, db, paragraphs, loaded, work_to_do, group_i, persist_i, cycle,
                   obs, queue_vars, reviewed, manager_vars>>

SpecNormalize == InitNormalize /\ [][PostProcessOriginal]_vars

\* One style of apostrophes and one of double quotes
ConsistentQuotes(text) ==
    /\ ~((Contains(text, <<"LSQ">>) \/ Contains(text, <<"RSQ">>)) /\ Contains(text, <<"'">>))
    /\ ~((Contains(text, <<"LDQ">>) \/ Contains(text, <<"RDQ">>)) /\ Contains(text, <<"\"">>))

\* No double quote doubled, none with a space on its inside
PlainQuotes(text) ==
    \A pair \in {<<"LDQ", " ">>, <<" ", "RDQ">>, <<"LDQ", "LDQ">>, <<"RDQ", "RDQ">>,
                 <<"LDQ", "RDQ">>} :
        ~Contains(text, pair)

\* Nothing that post_process_correction takes for a leftover of the model: a dash
\* in front, a separator, the start of a preamble, punctuation behind a closing
\* quote
NoModelLeftovers(text) ==
    /\ ~StartsWith(text, <<"-", "\n">>)
    /\ ~StartsWith(text, EmDash)
    /\ ~Contains(text, Separator)
    /\ ~is_ai_preamble(text)
    /\ \A triple \in {<<"?", "RDQ", ".">>, <<"?", "RDQ", ",">>, <<"ELLIPSIS", "RDQ", ",">>,
                      <<"!", "RDQ", ",">>, <<".", "RDQ", ",">>, <<",", "RDQ", ".">>} :
          ~Contains(text, triple)


(***************************************************************************)
(* The instruction prompt of a correction cycle                            *)
(***************************************************************************)

\* The highest chapterIndex of a chapter
MaxChapterIndex == 4

\* _generate_correction(paragraph_bundle, chapter_index, correction_strength,
\* re_runs) up to the prompt text: the instruction and the text behind it
prompt_of_generate_correction(paragraph_bundle, chapter_index, correction_strength) ==
    [instruction |-> IF correction_strength = 1 THEN "TEXT_CORRECTION_PROMPT_LOW"
                     ELSE IF correction_strength = 2 THEN "TEXT_CORRECTION_PROMPT_MEDIUM"
                     ELSE IF correction_strength = 3 THEN "TEXT_CORRECTION_PROMPT_MAX"
                     ELSE "TEXT_CORRECTION_PROMPT_MEDIUM",
     text |-> Join(OriginalTexts(paragraph_bundle), Separator) \o <<"\n">> \o Separator]

\* generate_corrections: self._generate_correction(group, chapter.chapterIndex,
\* correction_strength, config.correctionReRuns)
prompt_of_generate_corrections(group, chapterIndex, correction_strength) ==
    prompt_of_generate_correction(group, chapterIndex, correction_strength)

\* generate_single_correction: self._generate_correction([paragraph],
\* correction_strength, contained_in_chapter.chapterIndex, re_runs)
prompt_of_generate_single_correction(paragraph, chapterIndex, correction_strength) ==
    prompt_of_generate_correction(<<paragraph>>, correction_strength, chapterIndex)

\* A chapter of a project with a correction strength (project.py create_project
\* allows 1 to 3), and the paragraphs an entry point works on
InitPrompt ==
    /\ JobQueueInit
    /\ reviewed = <<>>
    /\ AIManagerInit
    /\ entry \in {"chapter", "single"}
    /\ \E strength \in 1..3, chapterIndex \in 1..MaxChapterIndex :
          config = [correctionReRuns |-> 0, simultaneousCorrectionSize |-> 500,
                    correctionStrengthLevel |-> strength, chapterIndex |-> chapterIndex]
    /\ db = <<>>
    /\ \E texts \in GroupTexts :
          /\ entry = "single" => Len(texts) = 1
          /\ paragraphs = AsBundle(texts)
    /\ loaded = paragraphs
    /\ work_to_do = <<>>
    /\ group_i = 0
    /\ persist_i = 0
    /\ outcome = <<>>
    /\ obs = NewObs
    /\ pc = "start"
    /\ cycle = NoCycle

\* The first prompt of the entry point's cycle is put together
SendPrompt ==
    /\ pc = "start"
    /\ outcome' = IF entry = "chapter"
                  THEN prompt_of_generate_corrections(paragraphs, config.chapterIndex,
                                                      config.correctionStrengthLevel)
                  ELSE prompt_of_generate_single_correction(paragraphs[1], config.chapterIndex,
                                                            config.correctionStrengthLevel)
    /\ pc' = "await"
    /\ UNCHANGED <<entry, config, db, paragraphs, loaded, work_to_do, group_i, persist_i, cycle,
                   obs, queue_vars, reviewed, manager_vars>>

SpecPrompt == InitPrompt /\ [][SendPrompt]_vars

\* The instruction the project's correction strength stands for
InstructionOf(strength) ==
    IF strength = 1 THEN "TEXT_CORRECTION_PROMPT_LOW"
    ELSE IF strength = 2 THEN "TEXT_CORRECTION_PROMPT_MEDIUM"
    ELSE "TEXT_CORRECTION_PROMPT_MAX"


(***************************************************************************)
(* generate_corrections_for_all                                            *)
(***************************************************************************)

\* The requests to correct all projects, the projects one of them finds and the
\* prompts it is followed for
MaxInvocations == 3

MaxProjects == 2

MaxPrompts == 2

correction_vars == <<entry, config, db, paragraphs, work_to_do, group_i, persist_i, pc, cycle,
                     outcome, obs, loaded, reviewed>>

InitAll ==
    /\ JobQueueInit
    /\ reviewed = <<>>
    /\ AIManagerInit
    /\ entry = "all"
    /\ config = [correctionReRuns |-> 0, simultaneousCorrectionSize |-> 500]
    /\ db = <<>>
    /\ paragraphs = <<>>
    /\ loaded = <<>>
    /\ work_to_do = <<>>
    /\ group_i = 0
    /\ persist_i = 0
    /\ pc = "serving"
    /\ cycle = NoCycle
    /\ outcome = <<>>
    /\ obs = NewObs

\* An invocation between its first await and its finally block
Active(invocation) == invocation.pc \in {"get_project", "project", "chapters"}

\* Variant of EndAll: the flag is only put back when the try block ran to its end
EndAllKeepingFlagOnFailure(i, failed) ==
    /\ generating_all' = failed
    /\ invocations' = [invocations EXCEPT ![i].pc = "ended", ![i].failed = failed]

\* The except and finally blocks of generate_corrections_for_all, and a try block
\* that has run to its end
EndAll(i, failed) ==
    /\ generating_all' = FALSE
    /\ invocations' = [invocations EXCEPT ![i].pc = "ended", ![i].failed = failed]

\* main.py generate_project_corrections: get_projects, then the background task
\* runs generate_corrections_for_all up to its first await
GenerateCorrectionsForAll ==
    /\ Len(invocations) < MaxInvocations
    /\ \E projects \in 0..MaxProjects :
       \E invocation \in {[pc |-> "start", projects |-> projects, project_i |-> 1, prompts |-> 0,
                           failed |-> FALSE,
                           during_other |-> \E j \in 1..Len(invocations) :
                                               Active(invocations[j])]} :
          IF generating_all
          THEN /\ invocations' = Append(invocations, [invocation EXCEPT !.pc = "returned"])
               /\ UNCHANGED generating_all
          ELSE IF projects = 0
          THEN /\ invocations' = Append(invocations, [invocation EXCEPT !.pc = "ended"])
               /\ generating_all' = FALSE
          ELSE /\ invocations' = Append(invocations, [invocation EXCEPT !.pc = "get_project"])
               /\ generating_all' = TRUE
    /\ UNCHANGED <<correction_vars, queue_vars>>

\* "project = await database.get_project(project.id, include_chapters=True)"
GetProject(i) ==
    /\ invocations[i].pc = "get_project"
    /\ invocations' = [invocations EXCEPT ![i].pc = "project"]
    /\ UNCHANGED <<generating_all, correction_vars, queue_vars>>

\* get_project raises, or generate_corrections_for_project raises for a project
\* with no chapters
ProjectRaises(i) ==
    /\ invocations[i].pc \in {"get_project", "project"}
    /\ EndAll(i, TRUE)
    /\ UNCHANGED <<correction_vars, queue_vars>>

\* generate_corrections_for_project finds chapters and enters its for loop
EnterChapters(i) ==
    /\ invocations[i].pc = "project"
    /\ invocations' = [invocations EXCEPT ![i].pc = "chapters"]
    /\ UNCHANGED <<generating_all, correction_vars, queue_vars>>

\* generate_corrections of a chapter of the project submits a prompt
SubmitPrompt(i) ==
    /\ invocations[i].pc = "chapters"
    /\ invocations[i].prompts < MaxPrompts
    /\ invocations' = [invocations EXCEPT ![i].prompts = @ + 1]
    /\ UNCHANGED <<generating_all, correction_vars, queue_vars>>

\* generate_corrections_for_project returns (it catches what a chapter raises):
\* the next project, or the end of the for loop
ProjectDone(i) ==
    /\ invocations[i].pc = "chapters"
    /\ IF invocations[i].project_i < invocations[i].projects
       THEN /\ invocations' = [invocations EXCEPT ![i].pc = "get_project", ![i].project_i = @ + 1]
            /\ UNCHANGED generating_all
       ELSE EndAll(i, FALSE)
    /\ UNCHANGED <<correction_vars, queue_vars>>

NextAll ==
    \/ GenerateCorrectionsForAll
    \/ \E i \in 1..Len(invocations) : GetProject(i)
    \/ \E i \in 1..Len(invocations) : ProjectRaises(i)
    \/ \E i \in 1..Len(invocations) : EnterChapters(i)
    \/ \E i \in 1..Len(invocations) : SubmitPrompt(i)
    \/ \E i \in 1..Len(invocations) : ProjectDone(i)

SpecAll == InitAll /\ [][NextAll]_vars


(***************************************************************************)
(* Properties of the correction flows                                      *)
(***************************************************************************)

\* The positions in paragraphs of the group the running (or last) cycle corrects
CycleGroup == work_to_do[obs.group]

\* C1: in generate_corrections a failure while handling one group, be it the
\* group's cycle raising or update_paragraph failing, never prevents the remaining
\* groups of the chapter from being processed: when the flow has ended, every group
\* has been submitted for correction.
C1_LaterGroupsStillSubmitted ==
    (entry = "chapter" /\ pc \in {"done", "failed"}) =>
        \A g \in 1..Len(outcome) : outcome[g] # "pending"

\* C2: while no round has been accepted and every response fails parsing or
\* validation, the cycle submits exactly MAX_TECHNICAL_RETRIES + 1 prompts and
\* then raises; no field of a paragraph of the group has changed then, and none
\* of them is persisted (neither then nor later in the flow).
C2_ExhaustionRaisesUntouched ==
    /\ (obs.group > 0 /\ obs.accepted = 0 /\ ~obs.job_failed) =>
          /\ obs.prompts <= MAX_TECHNICAL_RETRIES + 1
          /\ obs.ended # "applied"
          /\ obs.ended = "raised" =>
                /\ obs.prompts = MAX_TECHNICAL_RETRIES + 1
                /\ obs.failures = MAX_TECHNICAL_RETRIES + 1
                /\ outcome[obs.group] = "raised"
    /\ \A g \in 1..Len(outcome) :
          outcome[g] = "raised" =>
              \A i \in 1..Len(work_to_do[g]) :
                  LET p == work_to_do[g][i]
                  IN  /\ paragraphs[p] = loaded[p]
                      /\ db[loaded[p].index] = loaded[p]

\* A cycle over a group of several paragraphs raised after four failed responses
C2_Witness ==
    /\ obs.group > 0
    /\ obs.ended = "raised"
    /\ ~obs.job_failed
    /\ obs.accepted = 0
    /\ obs.prompts = MAX_TECHNICAL_RETRIES + 1
    /\ Len(CycleGroup) >= 2

\* C3: when a response fails parsing or validation with the technical retries
\* used up and at least one history entry, the cycle does not raise and submits
\* no further prompt (the re-runs left become 0): it selects the final answer and
\* applies it to the paragraphs of the group.
C3_ExhaustionWithHistoryApplies ==
    [][ ( /\ pc = "await"
          /\ cycle.technical_retries <= 0
          /\ Len(cycle.corrections_history) > 0
          /\ obs'.failures = obs.failures + 1 )
        => ( /\ obs'.ended = "applied"
             /\ obs'.prompts = obs.prompts
             /\ cycle'.re_runs = 0
             /\ pc' = "persist"
             /\ outcome'[group_i] = "applied"
             /\ LET group == work_to_do[group_i]
                IN  [i \in 1..Len(group) |-> paragraphs'[group[i]]]
                        = apply_corrections(Bundle(group), obs'.applied) ) ]_vars

\* A cycle configured with three re-runs fell back after its first accepted round
C3_Witness ==
    /\ obs.fell_back
    /\ obs.ended = "applied"
    /\ obs.accepted = 1
    /\ config.correctionReRuns = MaxReRuns

\* C4: when a cycle falls back on its history after the technical retries ran
\* out, the corrections applied are, slot for slot, those of the most recent
\* history entry.
C4_FallbackAppliesLastEntry ==
    (obs.fell_back /\ obs.ended = "applied") =>
        obs.applied = cycle.corrections_history[Len(cycle.corrections_history)]

\* C5: after an accepted round the technical-retry budget is restored in part
\* and stays within its ceiling: a re-run starts with technical retries left.
C5_ReRunsKeepRetryAllowance ==
    (pc = "await" /\ obs.accepted >= 1 /\ obs.round_failures = 0) =>
        /\ cycle.technical_retries > 0
        /\ cycle.technical_retries <= MAX_TECHNICAL_RETRIES

\* C6 as stated: after an accepted round whose entry equals the one before it,
\* the cycle stops; it never awaits another response with its last two history
\* entries identical.
C6_LastTwoEntriesStop ==
    (pc = "await" /\ Len(cycle.corrections_history) >= 2) =>
        cycle.corrections_history[Len(cycle.corrections_history)]
            # cycle.corrections_history[Len(cycle.corrections_history) - 1]

\* C6: after an accepted round, if all the history entries (two or more) are
\* slot-wise identical the cycle stops; it never awaits another response with a
\* history of two or more entries that are all the same.
C6_AllEntriesIdenticalStop ==
    (pc = "await" /\ Len(cycle.corrections_history) >= 2) =>
        \E h \in 1..Len(cycle.corrections_history) :
            cycle.corrections_history[h] # cycle.corrections_history[1]

\* A cycle stopped on two identical rounds with a re-run still left
C6_Witness ==
    /\ obs.ended = "applied"
    /\ ~obs.fell_back
    /\ obs.failures = 0
    /\ cycle.re_runs > 0
    /\ Len(cycle.corrections_history) = 2
    /\ cycle.corrections_history[1] = cycle.corrections_history[2]

\* C7: whenever an accepted round's candidates all equal the originals, the cycle
\* stops and, the history being discarded, the answer applied is the unchanged
\* originals: no paragraph of the group ends with a correctedText, whatever the
\* earlier rounds returned and however many re-runs were left.
C7_NoOpRoundAppliesOriginals ==
    ( /\ obs.group > 0
      /\ obs.accepted >= 1
      /\ obs.round_failures = 0
      /\ ~obs.job_failed
      /\ full_match(LoadedBundle(CycleGroup), cycle.corrections) )
    => ( /\ obs.ended = "applied"
         /\ obs.applied = OriginalTexts(LoadedBundle(CycleGroup))
         /\ \A i \in 1..Len(CycleGroup) : paragraphs[CycleGroup[i]].correctedText = None )

C9_TwoIdenticalRoundsStop ==
    ( /\ obs.group > 0
      /\ obs.accepted >= 2
      /\ obs.failures = 0
      /\ Len(cycle.corrections_history) >= 2
      /\ cycle.corrections_history[1] = cycle.corrections_history[2]
      /\ \A i \in 1..Len(CycleGroup) :
            /\ loaded[CycleGroup[i]].correctionStatus = "notGenerated"
            /\ cycle.corrections_history[1][i] # loaded[CycleGroup[i]].originalText )
    => ( /\ obs.ended = "applied"
         /\ obs.prompts = 2
         /\ obs.accepted = 2
         /\ \A i \in 1..Len(CycleGroup) :
               /\ paragraphs[CycleGroup[i]].correctedText = cycle.corrections_history[1][i]
               /\ paragraphs[CycleGroup[i]].correctionStatus = "generated" )

\* A group of three paragraphs with three re-runs configured ended after two
\* identical rounds that corrected every paragraph
C9_Witness ==
    /\ obs.group > 0
    /\ obs.ended = "applied"
    /\ obs.prompts = 2
    /\ obs.accepted = 2
    /\ config.correctionReRuns = MaxReRuns
    /\ Len(CycleGroup) = 3
    /\ Len(cycle.corrections_history) = 2
    /\ cycle.corrections_history[1] = cycle.corrections_history[2]
    /\ \A i \in 1..Len(CycleGroup) :
          /\ cycle.corrections_history[1][i] # loaded[CycleGroup[i]].originalText
          /\ paragraphs[CycleGroup[i]].correctionStatus = "generated"

\* C10: pick_best_history returns the fallback list unchanged when the history
\* is empty; otherwise it returns, for every slot, the string that occurs most
\* often in that slot over all the history entries, the tied string of the
\* earliest entry winning a tie; the result has one string per slot, each taken
\* from that slot of some history entry.
C10_PickBestHistory ==
    pc = "picked" =>
        LET history == cycle.corrections_history
            result == obs.applied
            Count(slot, text) ==
                Cardinality({e \in 1..Len(history) : history[e][slot] = text})
            First(slot, text) ==
                CHOOSE e \in 1..Len(history) :
                    /\ history[e][slot] = text
                    /\ \A d \in 1..(e - 1) : history[d][slot] # text
        IN  IF history = <<>> THEN result = cycle.corrections
            ELSE /\ Len(result) = Len(history[1])
                 /\ \A slot \in 1..Len(result) :
                       /\ \E e \in 1..Len(history) : result[slot] = history[e][slot]
                       /\ \A e \in 1..Len(history) :
                             \/ Count(slot, history[e][slot]) < Count(slot, result[slot])
                             \/ /\ Count(slot, history[e][slot]) = Count(slot, result[slot])
                                /\ First(slot, result[slot]) <= First(slot, history[e][slot])

\* A history of three entries whose first slot is tied and whose answer is not
\* the last entry's
C10_Witness ==
    /\ pc = "picked"
    /\ Len(cycle.corrections_history) = 3
    /\ Len(obs.applied) = 2
    /\ cycle.corrections_history[1][1] # cycle.corrections_history[2][1]
    /\ cycle.corrections_history[2][1] # cycle.corrections_history[3][1]
    /\ cycle.corrections_history[1][1] # cycle.corrections_history[3][1]
    /\ obs.applied[1] = cycle.corrections_history[1][1]
    /\ obs.applied[2] = cycle.corrections_history[3][2]
    /\ cycle.corrections_history[2][2] = cycle.corrections_history[3][2]
    /\ cycle.corrections_history[1][2] # cycle.corrections_history[3][2]

(***************************************************************************)
(* Properties of apply_corrections                                         *)
(***************************************************************************)

\* C11: apply_corrections never changes the correctionStatus of a paragraph whose
\* status is accepted or reviewed, whatever text was chosen for it.
C11_HumanStatusKept ==
    pc = "applied" =>
        \A i \in 1..Len(paragraphs) :
            loaded[i].correctionStatus \in {"accepted", "reviewed"} =>
                paragraphs[i].correctionStatus = loaded[i].correctionStatus

\* An accepted paragraph was given its original text back and a reviewed one
\* would be handled alike: here the accepted one, whose suggestion was cleared
C11_Witness ==
    /\ pc = "applied"
    /\ loaded[1].correctionStatus = "accepted"
    /\ loaded[1].correctedText # None
    /\ cycle.corrections[1] = loaded[1].originalText
    /\ paragraphs[1].correctedText = None
    /\ paragraphs[1].correctionStatus = "accepted"

\* C12: apply_corrections clears manuallyCorrectedText only when it stores a new
\* suggestion (the chosen text differs from originalText) on a paragraph that is
\* not accepted; when the chosen text equals originalText, or the paragraph is
\* accepted, manuallyCorrectedText is left unchanged.
C12_ManualEditClearedOnlyForNewSuggestion ==
    pc = "applied" =>
        \A i \in 1..Len(paragraphs) :
            paragraphs[i].manuallyCorrectedText # loaded[i].manuallyCorrectedText =>
                /\ cycle.corrections[i] # loaded[i].originalText
                /\ loaded[i].correctionStatus # "accepted"

\* C13: after apply_corrections, for every paragraph and every prior status,
\* correctedText is None exactly when the chosen text equals originalText and is
\* the chosen text otherwise; a stored correctedText never equals originalText.
C13_CorrectedTextIsTheChangedText ==
    pc = "applied" =>
        \A i \in 1..Len(paragraphs) :
            /\ paragraphs[i].correctedText = None <=>
                   cycle.corrections[i] = loaded[i].originalText
            /\ cycle.corrections[i] # loaded[i].originalText =>
                   paragraphs[i].correctedText = cycle.corrections[i]
            /\ paragraphs[i].correctedText # paragraphs[i].originalText

\* A rejected paragraph holding a suggestion was given its original text back,
\* next to a pending paragraph that got a correction
C13_Witness ==
    /\ pc = "applied"
    /\ Len(paragraphs) = 2
    /\ loaded[1].correctionStatus = "rejected"
    /\ loaded[1].correctedText # None
    /\ cycle.corrections[1] = loaded[1].originalText
    /\ paragraphs[1].correctedText = None
    /\ cycle.corrections[2] # loaded[2].originalText
    /\ paragraphs[2].correctedText = cycle.corrections[2]

(***************************************************************************)
(* Properties of the review operations                                     *)
(***************************************************************************)

\* C14: in every state reachable by any sequence of saveManual, approve, reject,
\* clear and correction generation (for the chapter or for one paragraph), a
\* manuallyCorrectedText that is not None is never the same text as the
\* paragraph's correctedText.
C14_ManualEditDiffersFromSuggestion ==
    \A i \in 1..Len(db) :
        db[i].manuallyCorrectedText # None =>
            db[i].manuallyCorrectedText # db[i].correctedText

(***************************************************************************)
(* Properties of chunked_paragraphs                                        *)
(***************************************************************************)

\* C15: the groups chunked_paragraphs returns, concatenated in order, are the
\* input sequence (nothing dropped, duplicated or reordered); no group is empty;
\* and inside a group each paragraph's index is one more than its predecessor's.
C15_GroupsPartitionInOrder ==
    pc = "chunked" =>
        /\ FlattenSeq(work_to_do) = paragraphs
        /\ \A g \in 1..Len(work_to_do) :
              /\ work_to_do[g] # <<>>
              /\ \A k \in 2..Len(work_to_do[g]) :
                    work_to_do[g][k].index = work_to_do[g][k - 1].index + 1

\* Paragraphs 1, 2 and 4 of small texts under a large limit: the gap separates
\* the groups <<1, 2>> and <<4>>
C15_Witness ==
    /\ pc = "chunked"
    /\ Len(paragraphs) = 3
    /\ paragraphs[1].index + 1 = paragraphs[2].index
    /\ paragraphs[2].index + 1 < paragraphs[3].index
    /\ CombinedLength(paragraphs) <= config.simultaneousCorrectionSize
    /\ Len(work_to_do) = 2
    /\ Len(work_to_do[1]) = 2

\* C16: a group of more than one paragraph has a combined originalText length of
\* at most chunk_size; a group's combined length exceeds chunk_size only when the
\* group is a single paragraph that is itself longer than chunk_size.
C16_GroupsWithinChunkSize ==
    pc = "chunked" =>
        \A g \in 1..Len(work_to_do) :
            /\ Len(work_to_do[g]) > 1 =>
                  CombinedLength(work_to_do[g]) <= config.simultaneousCorrectionSize
            /\ CombinedLength(work_to_do[g]) > config.simultaneousCorrectionSize =>
                  /\ Len(work_to_do[g]) = 1
                  /\ Len(work_to_do[g][1].originalText) > config.simultaneousCorrectionSize

\* Consecutive paragraphs where a group of two fills the limit exactly and the
\* next paragraph, longer than the limit, is a group of its own
C16_Witness ==
    /\ pc = "chunked"
    /\ \E g \in 1..Len(work_to_do) :
          /\ Len(work_to_do[g]) = 2
          /\ CombinedLength(work_to_do[g]) = config.simultaneousCorrectionSize
          /\ g < Len(work_to_do)
          /\ Len(work_to_do[g + 1]) = 1
          /\ work_to_do[g + 1][1].index = work_to_do[g][2].index + 1
          /\ CombinedLength(work_to_do[g + 1]) > config.simultaneousCorrectionSize

(***************************************************************************)
(* Properties of the job queue                                             *)
(***************************************************************************)

C18_EverySubmittedJobRuns ==
    \A j \in 1..MaxJobs :
        (Len(jobs) >= j) ~>
            \/ shutdown_event
            \/ /\ Len(jobs) >= j
               /\ jobs[j].runs = 1
               /\ \A f \in 1..MaxFlows : flows[f].awaiting # j

(***************************************************************************)
(* Properties of flows and review requests together                        *)
(***************************************************************************)

\* C19: a paragraph has one writer at a time: when a review action (approve,
\* reject, saveManual, clear) on a paragraph was committed while a correction
\* flow that loaded the paragraph earlier is still running, the flow's later
\* update_paragraph does not overwrite the committed state with values derived
\* from its stale snapshot: what it writes is the chosen text applied to the
\* committed state.
C19_FlowWriteBuildsOnCommittedReview ==
    [][\A i \in 1..Len(db) :
          (/\ db'[i] # db[i]
           /\ reviewed' = reviewed
           /\ \E r \in 1..Len(reviewed) : reviewed[r].index = i)
          => db'[i] = apply_correction(db[i], ChosenText(db'[i]))]_vars

(***************************************************************************)
(* Properties of extract_corrections                                       *)
(***************************************************************************)

\* C20: whenever extract_corrections returns, the list has exactly
\* len(paragraph_bundle) items and every item is a non-empty string without
\* whitespace at its ends, whichever stage produced it; otherwise it raises.
C20_ExtractedPartsAreTrimmedAndCounted ==
    pc = "extracted" =>
        \/ outcome.result = Raise
        \/ /\ ~outcome.result.raised
           /\ Len(outcome.result.value) = Len(paragraphs)
           /\ \A k \in 1..Len(outcome.result.value) :
                 /\ Len(outcome.result.value[k]) > 0
                 /\ Strip(outcome.result.value[k]) = outcome.result.value[k]

(***************************************************************************)
(* Properties of extract_corrections on joined strings                     *)
(***************************************************************************)

\* C21 as stated: for every list of one or more non-empty strings,
\* extract_corrections of the strings joined with '---' returns exactly those
\* strings in the same order.
C21_JoinedStringsComeBack ==
    pc = "joined" => outcome.result = Return(cycle.corrections)

\* C21, amended: for every list of one or more strings that are not blank, have
\* no whitespace at their ends, contain no '---' and do not end with '-',
\* extract_corrections of the strings joined with '---' returns exactly those
\* strings in the same order.
C21_JoinedSeparableStringsComeBack ==
    (pc = "joined" /\ \A k \in 1..Len(cycle.corrections) : Separable(cycle.corrections[k]))
        => outcome.result = Return(cycle.corrections)

\* Three strings, two of them the same and one with a blank line inside, came back
C21_Witness ==
    /\ pc = "joined"
    /\ Len(cycle.corrections) = 3
    /\ cycle.corrections[1] = cycle.corrections[2]
    /\ Contains(cycle.corrections[3], BlankLine)
    /\ \A k \in 1..3 : Separable(cycle.corrections[k])
    /\ outcome.result = Return(cycle.corrections)

\* C22 as stated: for a bundle of two paragraphs, every response with only one
\* '---'-delimited segment and no recognizable preamble makes extract_corrections
\* raise instead of returning a list.
C22_OneSegmentForTwoRaises ==
    (/\ pc = "extracted"
     /\ Len(paragraphs) = 2
     /\ Len(Segments(outcome.response)) = 1
     /\ NoPreamble(outcome.response))
        => outcome.result = Raise

\* C22, amended: for a bundle of two paragraphs, every response with only one
\* '---'-delimited segment, no recognizable preamble, no line break and no em
\* dash makes extract_corrections raise instead of returning a list.
C22_OneLineForTwoRaises ==
    (/\ pc = "extracted"
     /\ Len(paragraphs) = 2
     /\ Len(Segments(outcome.response)) = 1
     /\ NoPreamble(outcome.response)
     /\ ~Contains(outcome.response, NewLine)
     /\ ~Contains(outcome.response, EmDash))
        => outcome.result = Raise

\* One segment of text with the separator behind it, for two paragraphs: raised
C22_Witness ==
    /\ pc = "extracted"
    /\ Len(paragraphs) = 2
    /\ Len(Segments(outcome.response)) = 1
    /\ NoPreamble(outcome.response)
    /\ EndsWith(outcome.response, Separator)
    /\ ~Contains(outcome.response, NewLine)
    /\ ~Contains(outcome.response, EmDash)
    /\ outcome.result = Raise

(***************************************************************************)
(* Properties of validate_corrections                                      *)
(***************************************************************************)

\* C23: for non-empty lists of equal length validate_corrections returns false
\* exactly when some original is empty while its candidate differs from it, or
\* the average of distance / original length over the batch exceeds the
\* threshold, or, with all_must_pass, a single pair's distance / original length
\* exceeds the threshold; in every other case it returns true.
C23_ValidationFailsExactlyWhenTooFar ==
    pc = "validated" =>
        /\ ~outcome.raised
        /\ outcome.value = FALSE <=>
            \/ \E i \in 1..Len(cycle.original) :
                  cycle.original[i] = <<>> /\ cycle.corrections[i] # cycle.original[i]
            \/ ScaledDistanceSum(cycle.original, cycle.corrections, Len(cycle.original))
                   * ThresholdDen
                 > ThresholdNum * Len(cycle.original) * ProductOfLengths(cycle.original, 0)
            \/ /\ cycle.all_must_pass
               /\ \E i \in 1..Len(cycle.original) :
                     levenshtein_distance(cycle.original[i], cycle.corrections[i]) * ThresholdDen
                         > ThresholdNum * Len(cycle.original[i])

(***************************************************************************)
(* Properties of post_process_correction                                   *)
(***************************************************************************)

\* C24 as stated: for every original with one consistent quote and apostrophe
\* style and no doubled or space-padded quotes, post_process_correction(original,
\* original) returns the original unchanged and does not raise.
C24_CleanOriginalComesBack ==
    (/\ pc = "normalized"
     /\ ConsistentQuotes(paragraphs[1].originalText)
     /\ PlainQuotes(paragraphs[1].originalText))
        => outcome = Return(paragraphs[1].originalText)

\* C24, amended: for every original with one consistent quote and apostrophe
\* style, no doubled or space-padded quotes, no '-' plus line break or em dash in
\* front, no '---', no preamble phrase in front and no comma or full stop behind
\* a closing quote that follows punctuation, post_process_correction(original,
\* original) returns the original unchanged and does not raise.
C24_CleanOriginalWithoutLeftoversComesBack ==
    (/\ pc = "normalized"
     /\ ConsistentQuotes(paragraphs[1].originalText)
     /\ PlainQuotes(paragraphs[1].originalText)
     /\ NoModelLeftovers(paragraphs[1].originalText))
        => outcome = Return(paragraphs[1].originalText)

\* A text in plain double quotes came back as it was
C24_Witness ==
    /\ pc = "normalized"
    /\ paragraphs[1].originalText = <<"\"", "a", "\"">>
    /\ outcome = Return(paragraphs[1].originalText)

(***************************************************************************)
(* Properties of the prompt                                                *)
(***************************************************************************)

\* C25: on both entry points (generate_corrections for a chapter and
\* generate_single_correction) the instruction sent to the model is the one the
\* project's correction strength selects, 1 low, 2 medium, 3 max, whatever the
\* chapter's index.
C25_InstructionFollowsStrength ==
    pc = "await" => outcome.instruction = InstructionOf(config.correctionStrengthLevel)

(***************************************************************************)
(* Properties of the history and of the cycle's end                        *)
(***************************************************************************)

\* C26: at every point of a group's cycle corrections_history holds exactly one
\* entry per round that passed parsing and validation since the history was last
\* discarded: a failed round adds none and no accepted round is recorded twice.
\* (The history is only ever discarded by the no-op round that ends the cycle.)
C26_OneEntryPerAcceptedRound ==
    \/ Len(cycle.corrections_history) = obs.accepted
    \/ obs.ended = "applied" /\ cycle.corrections_history = <<>>

C28_JobFailurePropagates ==
    [][(~obs.job_failed /\ obs'.job_failed) =>
          /\ cycle' = cycle
          /\ obs'.prompts = obs.prompts
          /\ obs'.ended = "raised"
          /\ outcome'[obs.group] = "raised"
          /\ pc' # "await"
          /\ paragraphs' = paragraphs
          /\ Bundle(work_to_do[obs.group]) = LoadedBundle(work_to_do[obs.group])
          /\ db' = db]_vars

C28_Witness ==
    /\ obs.job_failed
    /\ obs.accepted >= 1
    /\ Len(cycle.corrections_history) >= 1
    /\ obs.failures >= 1
    /\ outcome[obs.group] = "raised"

(***************************************************************************)
(* Properties of generate_corrections_for_all                              *)
(***************************************************************************)

\* C29: at most one generate_corrections_for_all flow is active at any time; an
\* invocation that starts while another one is in progress returns without
\* submitting any prompt; and _generating_all is False whenever no flow is
\* active, whether the last one finished normally or failed.
C29_OneFlowForAll ==
    /\ Cardinality({i \in 1..Len(invocations) : Active(invocations[i])}) <= 1
    /\ \A i \in 1..Len(invocations) :
          invocations[i].during_other =>
              invocations[i].pc = "returned" /\ invocations[i].prompts = 0
    /\ generating_all <=> \E i \in 1..Len(invocations) : Active(invocations[i])

C29_Witness ==
    /\ Len(invocations) = 3
    /\ invocations[1].pc = "ended" /\ invocations[1].failed /\ invocations[1].prompts > 0
    /\ invocations[2].pc = "returned" /\ invocations[2].during_other
    /\ invocations[3].pc = "ended" /\ ~invocations[3].failed /\ invocations[3].prompts > 0
    /\ ~generating_all

(***************************************************************************)
(* Properties of the status apply_corrections leaves                       *)
(***************************************************************************)

\* C30: a paragraph that was notGenerated, generated, notRequired or rejected
\* before apply_corrections is afterwards notRequired when the chosen text equals
\* originalText; otherwise generated, except that a rejected paragraph stays
\* rejected when the chosen text is the correctedText it already had.  No paragraph
\* of the group is still notGenerated.
C30_StatusAfterApply ==
    pc = "applied" =>
        \A i \in 1..Len(paragraphs) :
            /\ paragraphs[i].correctionStatus # "notGenerated"
            /\ loaded[i].correctionStatus \in {"notGenerated", "generated", "notRequired", "rejected"} =>
                   paragraphs[i].correctionStatus =
                       IF cycle.corrections[i] = loaded[i].originalText THEN "notRequired"
                       ELSE IF /\ loaded[i].correctionStatus = "rejected"
                               /\ cycle.corrections[i] = loaded[i].correctedText
                       THEN "rejected"
                       ELSE "generated"

\* A rejected paragraph that got a text other than the one it was rejected for,
\* next to a pending paragraph that got its original back
C30_Witness ==
    /\ pc = "applied"
    /\ Len(paragraphs) = 2
    /\ loaded[1].correctionStatus = "rejected"
    /\ loaded[1].correctedText # None
    /\ cycle.corrections[1] \notin {loaded[1].correctedText, loaded[1].originalText}
    /\ paragraphs[1].correctionStatus = "generated"
    /\ loaded[2].correctionStatus = "notGenerated"
    /\ cycle.corrections[2] = loaded[2].originalText
    /\ paragraphs[2].correctionStatus = "notRequired"

====
